---- MODULE Spec2Model ----
(***************************************************************************)
(* Model of the zerocode prompt generator: the AdaptivePromptGenerator of  *)
(* src/src/generator.ts (fragment library, assembler) and the              *)
(* PlatformOptimizer of src/src/platform-optimizer.ts (profile table,      *)
(* rewrite pipelines, truncation).                                         *)
(*                                                                         *)
(* Texts are TLA+ strings; one character of a string is one UTF-16 code    *)
(* unit of the JavaScript string, so Len is String.prototype.length.       *)
(* The characters of the texts are the printable ASCII characters, the     *)
(* line break, tab, carriage return and form feed, and the non-ASCII code  *)
(* units of the sources.  A code unit is written as itself where a TLA+    *)
(* string can hold it, and as a reserved character that occurs nowhere in  *)
(* the sources where it cannot:                                            *)
(*   written as themselves                                                 *)
(*     U+2192 "→"  U+26A0 "⚠"  U+00AF "¯"  U+00A7 "§"  U+00E2 "â"          *)
(*     U+00EF "ï"  U+00B8 "¸"  U+02C6 "ˆ"                                  *)
(*   glyphs of generator.ts (real emoji, two code units each)              *)
(*     U+D83C "¤"  U+DFAF "¥"    goal glyph U+1F3AF           = "¤¥"       *)
(*     U+D83D "£"  U+DD27 "¢"    implementation glyph U+1F527 = "£¢"       *)
(*                 U+DCC8 "¦"    validation glyph U+1F4C8     = "£¦"       *)
(*     U+FE0F "°"                warning sign + selector      = "⚠°"       *)
(*   the grave accent U+0060 "´"                                           *)
(*   characters of platform-optimizer.ts (the file stores the glyphs       *)
(*   double-encoded, as sequences of Latin characters)                     *)
(*     U+011F "µ"  U+0178 "ÿ"  U+201D "»"  U+0161 "ß"  U+00A0 "·"          *)
(*     U+201C "«"                                                          *)
(*   so the four sequences of removeEmojis are "µÿ¯", "µÿ»§", "âß·ï¸"      *)
(*   and "µÿ«ˆ".                                                           *)
(***************************************************************************)
EXTENDS Integers, Sequences, FiniteSets, TLC

VARIABLES corePrompt, extendedPrompts, examples, platformLimits, call

vars == <<corePrompt, extendedPrompts, examples, platformLimits, call>>

(***************************************************************************)
(* JavaScript string primitives                                            *)
(***************************************************************************)
MinOf(S) == CHOOSE x \in S : \A y \in S : x <= y

MaxOf(S) == CHOOSE x \in S : \A y \in S : x >= y

Clamp(x, n) == IF x < 0 THEN 0 ELSE IF x > n THEN n ELSE x

\* String.prototype.substring(a, b): negative bounds count as 0, bounds past
\* the end as the length, and the two bounds are swapped when a > b.
substring(s, a, b) ==
  LET lo == Clamp(IF a < b THEN a ELSE b, Len(s))
      hi == Clamp(IF a < b THEN b ELSE a, Len(s))
  IN  IF lo >= hi THEN "" ELSE SubSeq(s, lo + 1, hi)

\* s.substring(a): from a to the end.
substringFrom(s, a) == substring(s, a, Len(s))

\* TRUE iff pattern p occurs in s at the 0-based index i.
MatchAt(s, p, i) ==
  /\ i >= 0
  /\ i + Len(p) <= Len(s)
  /\ \/ Len(p) = 0
     \/ /\ SubSeq(s, i + 1, i + 1) = SubSeq(p, 1, 1)
        /\ SubSeq(s, i + 1, i + Len(p)) = p

\* String.prototype.indexOf(p, from): 0-based index of the first occurrence
\* of p at an index >= from, -1 when there is none.
indexOf(s, p, from) ==
  LET range == Clamp(from, Len(s))..(Len(s) - Len(p))
  IN  IF \E i \in range : MatchAt(s, p, i)
      THEN CHOOSE i \in range :
             MatchAt(s, p, i) /\ \A j \in Clamp(from, Len(s))..(i - 1) : ~MatchAt(s, p, j)
      ELSE -1

\* String.prototype.lastIndexOf(p): index of the last occurrence, -1 if none.
lastIndexOf(s, p) ==
  LET range == 0..(Len(s) - Len(p))
  IN  IF \E i \in range : MatchAt(s, p, i)
      THEN CHOOSE i \in range :
             MatchAt(s, p, i) /\ \A j \in (i + 1)..(Len(s) - Len(p)) : ~MatchAt(s, p, j)
      ELSE -1

\* String.prototype.includes(p).
includes(s, p) == indexOf(s, p, 0) # -1

startsWith(s, p) == MatchAt(s, p, 0)

endsWith(s, p) == MatchAt(s, p, Len(s) - Len(p))

\* s.replace(/p/g, r) for a literal pattern p and a replacement r without
\* '$': every non-overlapping occurrence, scanning from the left.
RECURSIVE replaceAll(_, _, _)
replaceAll(s, p, r) ==
  LET i == indexOf(s, p, 0)
  IN  IF i = -1 THEN s
      ELSE substring(s, 0, i) \o r \o replaceAll(substringFrom(s, i + Len(p)), p, r)

\* s.split('\n'): the lines of s, a sequence of at least one string.
RECURSIVE splitLines(_)
splitLines(s) ==
  LET i == indexOf(s, "\n", 0)
  IN  IF i = -1 THEN <<s>>
      ELSE <<substring(s, 0, i)>> \o splitLines(substringFrom(s, i + 1))

\* lines.join('\n').
RECURSIVE joinLines(_)
joinLines(lines) ==
  IF Len(lines) = 0 THEN ""
  ELSE IF Len(lines) = 1 THEN lines[1]
  ELSE lines[1] \o "\n" \o joinLines(Tail(lines))

\* Array.prototype.slice(0, end): a negative end counts from the end of the
\* array.
slice0(arr, end) ==
  LET e == IF end < 0 THEN Clamp(Len(arr) + end, Len(arr)) ELSE Clamp(end, Len(arr))
  IN  SubSeq(arr, 1, e)

(***************************************************************************)
(* PlatformOptimizer: truncation                                           *)
(***************************************************************************)
truncationMessage == "\n\n[Truncated for platform compatibility]"

\* prompt.match(/\n\n## Usage Instructions[\s\S]*$/): index where the footer
\* starts, -1 when the pattern does not match.
footerIndex(prompt) == indexOf(prompt, "\n\n## Usage Instructions", 0)

\* prompt.match(/^(# .*?\n\n.*?\n\n## Core Principles[\s\S]*?\n\n)/): length
\* of the match, 0 when there is none.  Without the s flag '.' matches
\* neither a line break nor a carriage return, so the title and the first
\* paragraph are single lines.
truncHeaderLength(prompt) ==
  LET p1 == indexOf(prompt, "\n", 2)
      p2 == indexOf(prompt, "\n", p1 + 2)
      p3 == indexOf(prompt, "\n\n", p2 + Len("\n\n## Core Principles"))
  IN  IF /\ startsWith(prompt, "# ")
         /\ p1 # -1
         /\ MatchAt(prompt, "\n\n", p1)
         /\ p2 # -1
         /\ MatchAt(prompt, "\n\n## Core Principles", p2)
         /\ ~includes(substring(prompt, 0, p2), "\r")
         /\ p3 # -1
      THEN p3 + 2
      ELSE 0

\* Variant of simpleTruncate that never moves the cut back to a paragraph
\* break.
simpleTruncateNoSnap(prompt, maxChars) ==
  substring(prompt, 0, maxChars - Len(truncationMessage)) \o truncationMessage

\* The simple truncation of lines 408-416: cut, snap back to the last
\* paragraph break when it lies after 80% of the cut, append the message.
\* (n > x * 0.8 on numbers is 10 * n > 8 * x: the double product never
\* lies on the other side of an integer than the exact product.)
simpleTruncate(prompt, maxChars) ==
  LET simpleAvailable == maxChars - Len(truncationMessage)
      truncated == substring(prompt, 0, simpleAvailable)
      lastParagraph == lastIndexOf(truncated, "\n\n")
  IN  IF 10 * lastParagraph > 8 * simpleAvailable
      THEN substring(truncated, 0, lastParagraph) \o truncationMessage
      ELSE truncated \o truncationMessage

\* Variant of truncatePrompt whose header-preserving return leaves the
\* footer out.
truncatePromptNoFooter(prompt, maxChars) ==
  IF Len(prompt) <= maxChars THEN prompt
  ELSE
    LET footerAt == footerIndex(prompt)
        footerLength == IF footerAt = -1 THEN 0 ELSE Len(prompt) - footerAt
        availableChars == maxChars - Len(truncationMessage) - footerLength
    IN  IF 10 * availableChars < 3 * Len(prompt)
        THEN simpleTruncate(prompt, maxChars)
        ELSE
          LET headerLength == truncHeaderLength(prompt)
              mainContentStart == headerLength
              mainContentAvailable == availableChars - headerLength
              header == substring(prompt, 0, headerLength)
              mainContent == substring(prompt, mainContentStart,
                                       mainContentStart + mainContentAvailable)
              footer == IF footerAt = -1 THEN "" ELSE substringFrom(prompt, footerAt)
              lastParagraph == lastIndexOf(mainContent, "\n\n")
              finalMainContent == IF 10 * lastParagraph > 8 * mainContentAvailable
                                  THEN substring(mainContent, 0, lastParagraph)
                                  ELSE mainContent
          IN  IF mainContentAvailable > 0
              THEN header \o finalMainContent \o truncationMessage
              ELSE substring(prompt, 0, maxChars - Len(truncationMessage))
                     \o truncationMessage

\* Variant of truncatePrompt whose middle slice starts at the start of the
\* document instead of the end of the header region.
truncatePromptRepeatHeader(prompt, maxChars) ==
  IF Len(prompt) <= maxChars THEN prompt
  ELSE
    LET footerAt == footerIndex(prompt)
        footerLength == IF footerAt = -1 THEN 0 ELSE Len(prompt) - footerAt
        availableChars == maxChars - Len(truncationMessage) - footerLength
    IN  IF 10 * availableChars < 3 * Len(prompt)
        THEN simpleTruncate(prompt, maxChars)
        ELSE
          LET headerLength == truncHeaderLength(prompt)
              mainContentStart == headerLength
              mainContentAvailable == availableChars - headerLength
              header == substring(prompt, 0, headerLength)
              mainContent == substring(prompt, 0, mainContentAvailable)
              footer == IF footerAt = -1 THEN "" ELSE substringFrom(prompt, footerAt)
              lastParagraph == lastIndexOf(mainContent, "\n\n")
              finalMainContent == IF 10 * lastParagraph > 8 * mainContentAvailable
                                  THEN substring(mainContent, 0, lastParagraph)
                                  ELSE mainContent
          IN  IF mainContentAvailable > 0
              THEN header \o finalMainContent \o truncationMessage \o footer
              ELSE substring(prompt, 0, maxChars - Len(truncationMessage))
                     \o truncationMessage

\* private truncatePrompt(prompt, maxChars).
truncatePrompt(prompt, maxChars) ==
  IF Len(prompt) <= maxChars THEN prompt
  ELSE
    LET footerAt == footerIndex(prompt)
        footerLength == IF footerAt = -1 THEN 0 ELSE Len(prompt) - footerAt
        availableChars == maxChars - Len(truncationMessage) - footerLength
    IN  IF 10 * availableChars < 3 * Len(prompt)
        THEN simpleTruncate(prompt, maxChars)
        ELSE
          LET headerLength == truncHeaderLength(prompt)
              mainContentStart == headerLength
              mainContentAvailable == availableChars - headerLength
              header == substring(prompt, 0, headerLength)
              mainContent == substring(prompt, mainContentStart,
                                       mainContentStart + mainContentAvailable)
              footer == IF footerAt = -1 THEN "" ELSE substringFrom(prompt, footerAt)
              lastParagraph == lastIndexOf(mainContent, "\n\n")
              finalMainContent == IF 10 * lastParagraph > 8 * mainContentAvailable
                                  THEN substring(mainContent, 0, lastParagraph)
                                  ELSE mainContent
          IN  IF mainContentAvailable > 0
              THEN header \o finalMainContent \o truncationMessage \o footer
              ELSE substring(prompt, 0, maxChars - Len(truncationMessage))
                     \o truncationMessage

\* Variant of truncateByLines that leaves the document as it is.
truncateByLinesKeepAll(prompt, maxLines) == prompt

\* Variant of truncateByLines that also truncates a document with exactly
\* maxLines lines.
truncateByLinesStrict(prompt, maxLines) ==
  LET lines == splitLines(prompt)
      truncationLines == <<"", "[Truncated for platform compatibility]">>
      availableLines == maxLines - Len(truncationLines)
  IN  IF Len(lines) < maxLines THEN prompt
      ELSE joinLines(slice0(lines, availableLines)) \o "\n" \o joinLines(truncationLines)

\* private truncateByLines(prompt, maxLines).
truncateByLines(prompt, maxLines) ==
  LET lines == splitLines(prompt)
      truncationLines == <<"", "[Truncated for platform compatibility]">>
      availableLines == maxLines - Len(truncationLines)
  IN  IF Len(lines) <= maxLines THEN prompt
      ELSE joinLines(slice0(lines, availableLines)) \o "\n" \o joinLines(truncationLines)

(***************************************************************************)
(* PlatformOptimizer: rewrites                                             *)
(***************************************************************************)
\* GetSubstitution of String.prototype.replace(searchString, replaceValue)
\* for a string pattern (no capture groups): "$$" is "$", "$&" the matched
\* text, "$'" the text after the match, "$" with a grave accent the text
\* before the match, which is empty here (the match starts the document);
\* "$1".."$9" and any other "$x" stay as they are.
RECURSIVE getSubstitution(_, _, _)
getSubstitution(replacement, matched, after) ==
  LET i == indexOf(replacement, "$", 0)
      nxt == substring(replacement, i + 1, i + 2)
      before == substring(replacement, 0, i)
  IN  IF i = -1 THEN replacement
      ELSE IF nxt = "$"
        THEN before \o "$" \o getSubstitution(substringFrom(replacement, i + 2), matched, after)
      ELSE IF nxt = "&"
        THEN before \o matched \o getSubstitution(substringFrom(replacement, i + 2), matched, after)
      ELSE IF nxt = "'"
        THEN before \o after \o getSubstitution(substringFrom(replacement, i + 2), matched, after)
      ELSE IF nxt = "´"
        THEN before \o getSubstitution(substringFrom(replacement, i + 2), matched, after)
      ELSE before \o "$" \o getSubstitution(substringFrom(replacement, i + 1), matched, after)

\* prompt.match(/^(# .*?\n\n.*?\n\n)/s): length of the match, 0 when there
\* is none.  With the s flag '.' matches newlines, so the match runs to the
\* second blank line after the leading "# ".
insertHeaderLength(prompt) ==
  LET p1 == indexOf(prompt, "\n\n", 2)
      p2 == indexOf(prompt, "\n\n", p1 + 2)
  IN  IF startsWith(prompt, "# ") /\ p1 # -1 /\ p2 # -1 THEN p2 + 2 ELSE 0

\* private insertAfterHeader(prompt, content).
insertAfterHeader(prompt, content) ==
  LET n == insertHeaderLength(prompt)
      header == substring(prompt, 0, n)
      rest == substringFrom(prompt, n)
  IN  IF n > 0
      THEN getSubstitution(header \o content, header, rest) \o rest
      ELSE content \o prompt

\* private enhanceCodeSections(prompt).
enhanceCodeSections(prompt) ==
  replaceAll(prompt, "## Implementation Guidelines",
    "## Code Implementation Guidelines\n\n**For Cursor IDE users:**\n"
    \o "- Always provide complete, runnable code\n"
    \o "- Include proper TypeScript types\n"
    \o "- Suggest file organization\n"
    \o "- Consider IDE integration\n\n"
    \o "## Implementation Guidelines")

\* private enhanceStructuredSections(prompt).
enhanceStructuredSections(prompt) ==
  LET enhanced == replaceAll(prompt, "µÿ¯ OBJECTIVE:",
        "µÿ¯ OBJECTIVE:\n*Claude users: Provide comprehensive analysis with multiple perspectives*\n")
  IN  IF enhanced = prompt
      THEN replaceAll(prompt, "### µÿ¯ OBJECTIVE",
        "### µÿ¯ OBJECTIVE\n*Claude users: Provide comprehensive analysis with multiple perspectives*")
      ELSE enhanced

exampleSection ==
  "\n"
  \o "\n"
  \o "## Detailed Examples for Claude\n"
  \o "\n"
  \o "### Example 1: Code Review Request\n"
  \o "**Request:** \"Review this React component\"\n"
  \o "**Response Structure:**\n"
  \o "µÿ¯ **OBJECTIVE:** Analyze component for Hickey/Linus/Zeus principles\n"
  \o "µÿ»§ **IMPLEMENTATION:** Specific improvements with code examples\n"
  \o "âß·ï¸ **CONSIDERATIONS:** Potential issues and trade-offs\n"
  \o "µÿ«ˆ **VALIDATION:** Testing strategies and success metrics\n"
  \o "\n"
  \o "### Example 2: Architecture Decision\n"
  \o "**Request:** \"Should I use Redux or Context API?\"\n"
  \o "**Response Structure:**\n"
  \o "µÿ¯ **OBJECTIVE:** Choose state management based on real needs (Linus)\n"
  \o "µÿ»§ **IMPLEMENTATION:** Simple solution first (Hickey), structured comparison (Zeus)\n"
  \o "âß·ï¸ **CONSIDERATIONS:** Complexity trade-offs and team familiarity\n"
  \o "µÿ«ˆ **VALIDATION:** Measurable criteria for success\n"

\* private addDetailedExamples(prompt).
addDetailedExamples(prompt) == prompt \o exampleSection

\* The code points of the modelled alphabet that lie in the ranges of the
\* last replace of removeEmojis (U+1F300-1F5FF holds the three emoji,
\* U+2600-26FF the warning sign; U+FE0F lies in no range).
decorativeGlyphs == {"¤¥", "£¢", "£¦", "⚠"}

\* s.replace(/[\u{1F600}-\u{1F64F}]|...|[\u{2700}-\u{27BF}]/gu, ''): one
\* pass from the left that deletes every code point of the ranges.
RECURSIVE stripDecorative(_)
stripDecorative(s) ==
  LET hits == {indexOf(s, g, 0) : g \in decorativeGlyphs} \ {-1}
      i == MinOf(hits)
      g == CHOOSE x \in decorativeGlyphs : MatchAt(s, x, i)
  IN  IF hits = {} THEN s
      ELSE substring(s, 0, i) \o stripDecorative(substringFrom(s, i + Len(g)))

\* private removeEmojis(prompt).
removeEmojis(prompt) ==
  stripDecorative(
    replaceAll(
      replaceAll(
        replaceAll(
          replaceAll(prompt, "µÿ¯", "[OBJECTIVE]"),
          "µÿ»§", "[IMPLEMENTATION]"),
        "âß·ï¸", "[CONSIDERATIONS]"),
      "µÿ«ˆ", "[VALIDATION]"))

\* TRUE iff /\*\*([^*]+)\*\*/ matches at index i; boldEnd is then the index
\* of the closing "**".
boldEnd(s, i) == indexOf(s, "*", i + 2)

boldAt(s, i) == MatchAt(s, "**", i) /\ boldEnd(s, i) > i + 2 /\ MatchAt(s, "**", boldEnd(s, i))

\* s.replace(/\*\*([^*]+)\*\*/g, '$1:').
RECURSIVE simplifyBold(_)
simplifyBold(s) ==
  LET hits == {i \in 0..(Len(s) - 5) : boldAt(s, i)}
      i == MinOf(hits)
      j == boldEnd(s, i)
  IN  IF hits = {} THEN s
      ELSE substring(s, 0, i) \o substring(s, i + 2, j) \o ":"
             \o simplifyBold(substringFrom(s, j + 2))

\* private simplifyStructure(prompt).
simplifyStructure(prompt) ==
  replaceAll(
    simplifyBold(
      replaceAll(
        replaceAll(prompt, "### ", "## "),
        "#### ", "### ")),
    "- [ ]", "-")

(***************************************************************************)
(* PlatformOptimizer: profile table and pipelines                          *)
(***************************************************************************)
\* A PlatformLimits record.  maxLines is optional in the source; it is only
\* ever tested for truthiness, so an absent maxLines is written 0.
limitsOf(maxCharacters, maxLines, preferredFormat, supportsEmojis) ==
  [maxCharacters |-> maxCharacters, maxLines |-> maxLines,
   preferredFormat |-> preferredFormat, supportsEmojis |-> supportsEmojis]

\* The table initializePlatformLimits builds, for the given ceilings.
limitsTable(cursorMax, claudeMax, ollamaMax, ollamaLines, universalMax) ==
  [cursor    |-> limitsOf(cursorMax, 0, "markdown", TRUE),
   claude    |-> limitsOf(claudeMax, 0, "structured", TRUE),
   ollama    |-> limitsOf(ollamaMax, ollamaLines, "plain", FALSE),
   universal |-> limitsOf(universalMax, 0, "markdown", TRUE)]

\* private initializePlatformLimits(): the table of the shipped program.
initializePlatformLimits == limitsTable(15000, 20000, 8000, 300, 12000)

\* public getPlatformLimit(platform): limits?.maxCharacters || 10000.
getPlatformLimit(platform) ==
  IF platform \in DOMAIN platformLimits /\ platformLimits[platform].maxCharacters # 0
  THEN platformLimits[platform].maxCharacters
  ELSE 10000

optimizationResult(optimizedPrompt, warnings, appliedOptimizations) ==
  [optimizedPrompt |-> optimizedPrompt, warnings |-> warnings,
   appliedOptimizations |-> appliedOptimizations]

cursorPrefix ==
  "\n"
  \o "## Cursor IDE Optimization\n"
  \o "\n"
  \o "You are specifically optimized for code generation in Cursor IDE. Focus on:\n"
  \o "- Providing complete, runnable code examples\n"
  \o "- Using TypeScript when possible\n"
  \o "- Including proper imports and exports\n"
  \o "- Suggesting file structures and organization\n"
  \o "- Optimizing for developer productivity\n"
  \o "\n"

claudePrefix ==
  "\n"
  \o "## Claude Optimization\n"
  \o "\n"
  \o "You are optimized for Claude's structured reasoning capabilities. Emphasize:\n"
  \o "- Detailed step-by-step explanations\n"
  \o "- Multiple perspectives on complex problems\n"
  \o "- Comprehensive analysis with pros/cons\n"
  \o "- Clear reasoning chains\n"
  \o "- Thorough documentation of thought processes\n"
  \o "\n"

ollamaPrefix ==
  "\n"
  \o "## Ollama Local Model Optimization\n"
  \o "\n"
  \o "You are optimized for local model efficiency. Focus on:\n"
  \o "- Concise, direct responses\n"
  \o "- Essential information only\n"
  \o "- Minimal context switching\n"
  \o "- Clear, simple language\n"
  \o "- Efficient token usage\n"
  \o "\n"

universalPrefix ==
  "\n"
  \o "## Universal Compatibility\n"
  \o "\n"
  \o "This prompt is optimized for compatibility across multiple AI platforms:\n"
  \o "- Works with Cursor, Claude, Ollama, and other AI tools\n"
  \o "- Balanced approach between detail and conciseness\n"
  \o "- Standard markdown formatting\n"
  \o "- Clear structure for easy parsing\n"
  \o "\n"

\* optimizeForCursor up to the character check (lines 75-95).
cursorRewrite(prompt) == enhanceCodeSections(insertAfterHeader(prompt, cursorPrefix))

\* public optimizeForCursor(prompt, config).
optimizeForCursor(prompt) ==
  LET limits == platformLimits["cursor"]
      rewritten == cursorRewrite(prompt)
      applied == <<"Added Cursor-specific code generation focus",
                   "Enhanced code-related sections">>
  IN  IF Len(rewritten) > limits.maxCharacters
      THEN optimizationResult(truncatePrompt(rewritten, limits.maxCharacters),
             <<"Prompt truncated to " \o ToString(limits.maxCharacters)
                 \o " characters for Cursor compatibility">>,
             applied)
      ELSE optimizationResult(rewritten, <<>>, applied)

\* optimizeForClaude up to the character check (lines 118-142).
claudeRewrite(prompt) ==
  addDetailedExamples(enhanceStructuredSections(insertAfterHeader(prompt, claudePrefix)))

\* public optimizeForClaude(prompt, config): the character check only adds
\* a warning, the prompt is returned as rewritten.
optimizeForClaude(prompt) ==
  LET limits == platformLimits["claude"]
      rewritten == claudeRewrite(prompt)
      applied == <<"Added Claude-specific structured thinking",
                   "Enhanced structured sections",
                   "Added detailed examples">>
  IN  IF Len(rewritten) > limits.maxCharacters
      THEN optimizationResult(rewritten,
             <<"Prompt is " \o ToString(Len(rewritten)) \o " characters (within Claude's "
                 \o ToString(limits.maxCharacters) \o " limit)">>,
             applied)
      ELSE optimizationResult(rewritten, <<>>, applied)

\* Variant of ollamaRewrite that simplifies the structure before it removes
\* the glyphs.
ollamaRewriteSimplifyFirst(prompt) ==
  LET limits == platformLimits["ollama"]
      simplified == simplifyStructure(insertAfterHeader(prompt, ollamaPrefix))
  IN  IF ~limits.supportsEmojis THEN removeEmojis(simplified) ELSE simplified

\* optimizeForOllama up to the character check (lines 164-190).
ollamaRewrite(prompt) ==
  LET limits == platformLimits["ollama"]
      inserted == insertAfterHeader(prompt, ollamaPrefix)
  IN  simplifyStructure(IF ~limits.supportsEmojis THEN removeEmojis(inserted) ELSE inserted)

\* optimizeForOllama after the character pass (lines 192-196).
ollamaAfterChars(prompt) ==
  LET limits == platformLimits["ollama"]
      rewritten == ollamaRewrite(prompt)
  IN  IF Len(rewritten) > limits.maxCharacters
      THEN truncatePrompt(rewritten, limits.maxCharacters)
      ELSE rewritten

\* public optimizeForOllama(prompt, config).
optimizeForOllama(prompt) ==
  LET limits == platformLimits["ollama"]
      rewritten == ollamaRewrite(prompt)
      afterChars == ollamaAfterChars(prompt)
      charWarnings == IF Len(rewritten) > limits.maxCharacters
                      THEN <<"Prompt truncated to " \o ToString(limits.maxCharacters)
                               \o " characters for Ollama compatibility">>
                      ELSE <<>>
      lineCount == Len(splitLines(afterChars))
      applied == <<"Added Ollama-specific local model optimization">>
                   \o (IF ~limits.supportsEmojis
                       THEN <<"Removed emojis for local model compatibility">>
                       ELSE <<>>)
                   \o <<"Simplified structure for local models">>
  IN  IF limits.maxLines # 0 /\ lineCount > limits.maxLines
      THEN optimizationResult(truncateByLines(afterChars, limits.maxLines),
             charWarnings \o <<"Prompt truncated to " \o ToString(limits.maxLines)
                                 \o " lines for Ollama compatibility">>,
             applied)
      ELSE optimizationResult(afterChars, charWarnings, applied)

\* optimizeForUniversal up to the character check (lines 266-281).
universalRewrite(prompt) == insertAfterHeader(prompt, universalPrefix)

\* Variant of optimizeForUniversal that truncates without a warning.
optimizeForUniversalSilent(prompt) ==
  LET limits == platformLimits["universal"]
      rewritten == universalRewrite(prompt)
      applied == <<"Added universal compatibility optimization">>
  IN  IF Len(rewritten) > limits.maxCharacters
      THEN optimizationResult(truncatePrompt(rewritten, limits.maxCharacters), <<>>, applied)
      ELSE optimizationResult(rewritten, <<>>, applied)

\* private optimizeForUniversal(prompt, config).
optimizeForUniversal(prompt) ==
  LET limits == platformLimits["universal"]
      rewritten == universalRewrite(prompt)
      applied == <<"Added universal compatibility optimization">>
  IN  IF Len(rewritten) > limits.maxCharacters
      THEN optimizationResult(truncatePrompt(rewritten, limits.maxCharacters),
             <<"Prompt truncated to " \o ToString(limits.maxCharacters)
                 \o " characters for universal compatibility">>,
             applied)
      ELSE optimizationResult(rewritten, <<>>, applied)

\* public optimize(prompt, config): the switch on config.platform.
optimize(prompt, platform) ==
  CASE platform = "cursor" -> optimizeForCursor(prompt)
    [] platform = "claude" -> optimizeForClaude(prompt)
    [] platform = "ollama" -> optimizeForOllama(prompt)
    [] OTHER -> optimizeForUniversal(prompt)

(***************************************************************************)
(* AdaptivePromptGenerator                                                 *)
(***************************************************************************)
\* Variant of estimateTokens that rounds down.
estimateTokensFloor(text) == Len(text) \div 4

\* private estimateTokens(text): Math.ceil(text.length / 4).
estimateTokens(text) == (Len(text) + 3) \div 4

\* Map.get(key) || fallback on a map of strings: a missing key and a stored
\* empty string are both falsy.
getOr(map, key, fallback) ==
  IF key \in DOMAIN map /\ map[key] # "" THEN map[key] ELSE fallback

\* The package.json of the working directory: absent or its text.
noPackageJson == [exists |-> FALSE, text |-> ""]

packageJsonOf(text) == [exists |-> TRUE, text |-> text]

\* private detectProjectType(): readFileSync throws when the file is absent
\* and the catch falls through to 'node'.
detectProjectType(packageJson) ==
  IF ~packageJson.exists THEN "node"
  ELSE IF includes(packageJson.text, "react") THEN "react"
  ELSE IF includes(packageJson.text, "vue") THEN "vue"
  ELSE IF includes(packageJson.text, "angular") THEN "angular"
  ELSE IF includes(packageJson.text, "express") THEN "node"
  ELSE IF includes(packageJson.text, "fastify") THEN "node"
  ELSE "node"

\* Variant of resolveExtended without the fallback to the cursor fragment.
resolveExtendedNoFallback(platform) == getOr(extendedPrompts, platform, "")

\* The extended fragment assembleAdaptivePrompt resolves (lines 233-234).
resolveExtended(platform) == getOr(extendedPrompts, platform, getOr(extendedPrompts, "cursor", ""))

\* The example fragment assembleAdaptivePrompt resolves (lines 243-244).
resolveExamples(packageJson) == getOr(examples, detectProjectType(packageJson), "")

\* Variant of assemblyStart that does not record the core label.
assemblyStartUnlabelled ==
  [finalPrompt |-> corePrompt, appliedOptimizations |-> <<>>,
   estimatedTokens |-> estimateTokens(corePrompt)]

\* The assembly in progress: lines 228-230 of assembleAdaptivePrompt.
assemblyStart ==
  [finalPrompt |-> corePrompt, appliedOptimizations |-> <<"core">>,
   estimatedTokens |-> estimateTokens(corePrompt)]

\* Variant of withFragment that appends the fragment without the separator.
withFragmentUnseparated(assembly, label, fragment) ==
  [finalPrompt |-> assembly.finalPrompt \o fragment,
   appliedOptimizations |-> Append(assembly.appliedOptimizations, label),
   estimatedTokens |-> assembly.estimatedTokens + estimateTokens(fragment)]

\* The assembly with one more fragment: the three statements of the bodies
\* of lines 237-239 and 247-249.
withFragment(assembly, label, fragment) ==
  [finalPrompt |-> assembly.finalPrompt \o "\n\n" \o fragment,
   appliedOptimizations |-> Append(assembly.appliedOptimizations, label),
   estimatedTokens |-> assembly.estimatedTokens + estimateTokens(fragment)]

\* Lines 232-240: add the extended rules if space is available.  (n < limit
\* * 0.7 on numbers is 10 * n < 7 * limit, and likewise for 0.9 below: the
\* double product never lies on the other side of an integer than the exact
\* product.)
addExtended(assembly, platform, platformLimit) ==
  LET extendedPrompt == resolveExtended(platform)
  IN  IF /\ extendedPrompt # ""
         /\ 10 * (assembly.estimatedTokens + estimateTokens(extendedPrompt)) < 7 * platformLimit
      THEN withFragment(assembly, "extended", extendedPrompt)
      ELSE assembly

\* Variant of addExamples whose budget test is not strict.
addExamplesInclusive(assembly, packageJson, platformLimit) ==
  LET examplesText == resolveExamples(packageJson)
  IN  IF /\ examplesText # ""
         /\ 10 * (assembly.estimatedTokens + estimateTokens(examplesText)) <= 9 * platformLimit
      THEN withFragment(assembly, "examples", examplesText)
      ELSE assembly

\* Lines 242-250: add the examples if space is available.
addExamples(assembly, packageJson, platformLimit) ==
  LET examplesText == resolveExamples(packageJson)
  IN  IF /\ examplesText # ""
         /\ 10 * (assembly.estimatedTokens + estimateTokens(examplesText)) < 9 * platformLimit
      THEN withFragment(assembly, "examples", examplesText)
      ELSE assembly

\* private assembleAdaptivePrompt(config).
assembleAdaptivePrompt(platform, packageJson) ==
  LET platformLimit == getPlatformLimit(platform)
      assembly == addExamples(addExtended(assemblyStart, platform, platformLimit),
                              packageJson, platformLimit)
  IN  optimizationResult(assembly.finalPrompt, <<>>, assembly.appliedOptimizations)

\* private getExamplesList().
getExamplesList ==
  <<"Use simple functions over complex classes",
    "Solve real problems, not imaginary ones",
    "Provide working code with clear validation">>

\* public generate(config): the assembly is returned as it is; the
\* PlatformOptimizer is only asked for the platform limit.
generate(platform, packageJson) ==
  LET optimization == assembleAdaptivePrompt(platform, packageJson)
  IN  [systemPrompt |-> optimization.optimizedPrompt,
       instructions |-> "Apply ZeroCode principles to all code generation",
       examples |-> getExamplesList,
       platform |-> platform]

(***************************************************************************)
(* Command (simple commander) and the commands of cli.ts                   *)
(***************************************************************************)
\* The characters \w matches.
wordChars ==
  { "a", "b", "c", "d", "e", "f", "g", "h", "i", "j", "k", "l", "m", "n", "o", "p", "q",
    "r", "s", "t", "u", "v", "w", "x", "y", "z", "A", "B", "C", "D", "E", "F", "G", "H",
    "I", "J", "K", "L", "M", "N", "O", "P", "Q", "R", "S", "T", "U", "V", "W", "X", "Y", "Z",
    "0", "1", "2", "3", "4", "5", "6", "7", "8", "9", "_" }

\* s.trim(): s without the white space and line terminators at its two
\* ends; of the characters of the texts these are the blank, the tab, the
\* line break, the carriage return, the form feed and the no-break space
\* U+00A0.
RECURSIVE trim(_)
trim(s) ==
  LET whiteSpace == {" ", "\t", "\n", "\r", "\f", "·"}
  IN  IF Len(s) = 0 THEN s
      ELSE IF substring(s, 0, 1) \in whiteSpace THEN trim(substringFrom(s, 1))
      ELSE IF substringFrom(s, Len(s) - 1) \in whiteSpace
        THEN trim(substring(s, 0, Len(s) - 1))
      ELSE s

\* s.split(',').
RECURSIVE splitComma(_)
splitComma(s) ==
  LET i == indexOf(s, ",", 0)
  IN  IF i = -1 THEN <<s>>
      ELSE <<substring(s, 0, i)>> \o splitComma(substringFrom(s, i + 1))

\* The index where the run of \w characters that starts at i ends.
RECURSIVE wordEnd(_, _)
wordEnd(s, i) ==
  IF i < Len(s) /\ substring(s, i, i + 1) \in wordChars THEN wordEnd(s, i + 1) ELSE i

\* s.replace(/--(\w+).*/, '$1') when long, s.replace(/-(\w).*/, '$1')
\* otherwise: the first dash (pair) that a word character follows, with the
\* rest of its line ('.*' stops at a line break or carriage return),
\* becomes the word (the one character).
replaceFlagByKey(s, long) ==
  LET dash == IF long THEN "--" ELSE "-"
      hits == {p \in 0..(Len(s) - 1) :
                 /\ MatchAt(s, dash, p)
                 /\ wordEnd(s, p + Len(dash)) > p + Len(dash)}
      p == MinOf(hits)
      from == p + Len(dash)
      to == IF long THEN wordEnd(s, from) ELSE from + 1
      lineEnd == MinOf({Len(s)} \cup ({indexOf(s, "\n", to), indexOf(s, "\r", to)} \ {-1}))
  IN  IF hits = {} THEN s
      ELSE substring(s, 0, p) \o substring(s, from, to)
             \o substringFrom(s, lineEnd)

\* private getOptionKey(flags).
getOptionKey(flags) ==
  LET parts == splitComma(flags)
      longs == {i \in DOMAIN parts : includes(parts[i], "--")}
      shorts == {i \in DOMAIN parts : includes(parts[i], "-") /\ ~includes(parts[i], "--")}
  IN  IF longs # {} THEN replaceFlagByKey(trim(parts[MinOf(longs)]), TRUE)
      ELSE IF shorts # {} THEN replaceFlagByKey(trim(parts[MinOf(shorts)]), FALSE)
      ELSE trim(flags)

\* option(flags, description, defaultValue): a CommandOption; hasDefault is
\* FALSE for a defaultValue of undefined.
option(flags, description, defaultValue) ==
  [flags |-> flags, description |-> description,
   hasDefault |-> TRUE, defaultValue |-> defaultValue]

\* The commands cli.ts registers on program with their options; every one
\* of them has an action.
commands ==
  [generate |-> <<option("-p, --platform <platform>", "AI platform", "universal"),
                  option("-c, --complexity <level>", "Complexity level", "basic"),
                  option("-l, --language <lang>", "Language", "english"),
                  [flags |-> "-o, --output <file>", description |-> "Save to file",
                   hasDefault |-> FALSE, defaultValue |-> ""]>>,
   demo     |-> <<>>,
   activate |-> <<>>,
   zinit    |-> <<>>]

\* private findOption(command, flag): the index of the first option one of
\* whose flags starts with the argument, 0 for undefined.
findOption(command, flag) ==
  LET found == {n \in DOMAIN commands[command] :
                  LET flags == splitComma(commands[command][n].flags)
                  IN  \E f \in DOMAIN flags :
                        startsWith(flag, "-") /\ startsWith(trim(flags[f]), flag)}
  IN  IF found = {} THEN 0 ELSE MinOf(found)

\* options[key] = value on the options object.
setOption(options, key, value) ==
  [k \in DOMAIN options \cup {key} |-> IF k = key THEN value ELSE options[k]]

\* The first index from j on at which the argument starts with '-', or the
\* number of arguments.
RECURSIVE valuesEnd(_, _)
valuesEnd(args, j) ==
  IF j < Len(args) /\ ~startsWith(args[j + 1], "-") THEN valuesEnd(args, j + 1) ELSE j

\* The loop of parse over args[i..] (lines 85-128): the options object at
\* the end of the loop, or unknown set when an argument matched no option.
RECURSIVE parseOptions(_, _, _, _)
parseOptions(command, args, i, options) ==
  IF i >= Len(args) THEN [unknown |-> FALSE, options |-> options]
  ELSE
    LET arg == args[i + 1]
        n == findOption(command, arg)
        opt == commands[command][n]
        key == getOptionKey(opt.flags)
        hasNext == i + 1 < Len(args)
        nextArg == args[i + 2]
        j == valuesEnd(args, i + 2)
        collected == (IF key \in DOMAIN options THEN options[key] ELSE <<>>)
                       \o SubSeq(args, i + 2, j)
    IN  IF ~startsWith(arg, "-") THEN parseOptions(command, args, i + 1, options)
        ELSE IF arg = "-h" \/ arg = "--help"
          THEN parseOptions(command, args, i + 1, options)
        ELSE IF n = 0 THEN [unknown |-> TRUE, options |-> options]
        ELSE IF ~includes(opt.flags, "<") /\ ~includes(opt.flags, "[")
          THEN parseOptions(command, args, i + 1, setOption(options, key, TRUE))
        ELSE IF hasNext /\ nextArg # "" /\ ~startsWith(nextArg, "-")
          THEN IF includes(opt.flags, "...")
               THEN parseOptions(command, args, j, setOption(options, key, collected))
               ELSE parseOptions(command, args, i + 2, setOption(options, key, nextArg))
        ELSE IF opt.hasDefault
          THEN parseOptions(command, args, i + 1, setOption(options, key, opt.defaultValue))
        ELSE parseOptions(command, args, i + 1, options)

\* command.options.forEach(...) of lines 131-136: the defaults of the
\* options from the n-th on, for the keys the options object lacks.
RECURSIVE withDefaults(_, _, _)
withDefaults(command, n, options) ==
  IF n > Len(commands[command]) THEN options
  ELSE LET opt == commands[command][n]
           key == getOptionKey(opt.flags)
       IN  withDefaults(command, n + 1,
             IF key \notin DOMAIN options /\ opt.hasDefault
             THEN setOption(options, key, opt.defaultValue)
             ELSE options)

\* parse(argv) on program: what the call printed and the calls of actions
\* it made.
parse(args) ==
  LET parsed(printed, actions) == [printed |-> printed, actions |-> actions]
      has(flag) == \E i \in DOMAIN args : args[i] = flag
      rest == SubSeq(args, 2, Len(args))
      restHas(flag) == \E i \in DOMAIN rest : rest[i] = flag
      commandName == args[1]
      loop == parseOptions(commandName, args, 1, << >>)
  IN  IF Len(args) = 0 THEN parsed("help", <<>>)
      ELSE IF (has("-h") \/ has("--help")) /\ Len(args) = 1 THEN parsed("help", <<>>)
      ELSE IF has("-v") \/ has("--version") THEN parsed("version", <<>>)
      ELSE IF commandName \notin DOMAIN commands THEN parsed("unknown command", <<>>)
      ELSE IF restHas("-h") \/ restHas("--help") THEN parsed("command help", <<>>)
      ELSE IF loop.unknown THEN parsed("unknown option", <<>>)
      ELSE parsed("", <<[command |-> commandName,
                         options |-> withDefaults(commandName, 1, loop.options)]>>)

(***************************************************************************)
(* Inputs: fragment libraries, profile tables, requests, documents         *)
(***************************************************************************)
RECURSIVE rep(_, _)
rep(s, n) ==
  IF n <= 0 THEN ""
  ELSE IF n = 1 THEN s
  ELSE LET half == rep(s, n \div 2)
       IN  half \o half \o (IF n % 2 = 1 THEN s ELSE "")

\* s filled up with filler characters to the length n.
padTo(s, n) == s \o rep("x", n - Len(s))

\* Largest multiplier of the uniform profile tables (ceilings 0, 50, ...).
MaxTable == 4

\* Largest number of filler paragraphs of a truncation input.
MaxParas == 3

\* Largest index of the ceilings tried on truncation inputs.
MaxCeil == 24

\* Largest line limit tried on truncation inputs.
MaxLineLimit == 8

\* private getCorePrompt(): the core fragment.
getCorePrompt ==
  "# ZeroCode Framework - Core Rules\n"
    \o "\n"
    \o "## TRIGGER PATTERNS - When you see these, apply rules:\n"
    \o "\n"
    \o "### Code Architecture Decisions\n"
    \o "TRIGGERS: \"how should I structure\", \"best practice\", \"design pattern\"\n"
    \o "→ APPLY: Hickey Simple Rule - One concept per component\n"
    \o "\n"
    \o "### Problem Solving  \n"
    \o "TRIGGERS: \"how to implement\", \"need to build\", \"want to create\"\n"
    \o "→ APPLY: Linus Real Problem Rule - Is this actually needed?\n"
    \o "\n"
    \o "### Code Review\n"
    \o "TRIGGERS: \"is this good\", \"review my code\", \"feedback on\"\n"
    \o "→ APPLY: Zeus Structure - Analyze systematically\n"
    \o "\n"
    \o "## CONCRETE RULES WITH EXAMPLES\n"
    \o "\n"
    \o "### HICKEY RULE: Detect Complexity\n"
    \o "BAD PATTERN (avoid this):\n"
    \o "´´´javascript\n"
    \o "class UserServiceManagerFactory {  // Multiple concepts\n"
    \o "  validateAndSaveAndEmail() {}     // Mixed responsibilities\n"
    \o "}\n"
    \o "´´´\n"
    \o "\n"
    \o "GOOD PATTERN (do this):\n"
    \o "´´´javascript\n"
    \o "validateUser(user)    // One concept\n"
    \o "saveUser(user)        // One concept\n"
    \o "emailUser(user)       // One concept\n"
    \o "´´´\n"
    \o "\n"
    \o "### LINUS RULE: Real vs Imaginary\n"
    \o "IMAGINARY PROBLEMS (don't solve):\n"
    \o "- \"What if we have 1 million users\" (you have 10)\n"
    \o "- \"This needs to be infinitely scalable\" (it doesn't)\n"
    \o "- \"We might need this flexibility\" (you won't)\n"
    \o "\n"
    \o "REAL PROBLEMS (solve these):\n"
    \o "- \"This takes 5 seconds to load\" (measurable)\n"
    \o "- \"Users can't reset passwords\" (actual issue)\n"
    \o "- \"Database queries fail randomly\" (happening now)\n"
    \o "\n"
    \o "### ZEUS STRUCTURE: Every response must have:\n"
    \o "¤¥ OBJECTIVE: What we're solving (one sentence)\n"
    \o "£¢ IMPLEMENTATION: Simple, working code\n"
    \o "⚠° TRADEOFFS: What we're sacrificing for simplicity\n"
    \o "£¦ VALIDATION: How to verify it works\n"
    \o "\n"
    \o "CRITICAL: Prefer boring solutions that work over clever solutions that might work."

\* private loadExtendedPrompts(): the extended fragments, by destination.
loadExtendedPrompts ==
  [ cursor |->
      "\n"
        \o "## Cursor-Specific Code Generation Rules\n"
        \o "\n"
        \o "When generating code in Cursor:\n"
        \o "1. Always provide complete, runnable files\n"
        \o "2. Include all imports at the top\n"
        \o "3. Use TypeScript when possible for better IntelliSense\n"
        \o "4. Add clear comments for complex logic\n"
        \o "\n"
        \o "Example of Cursor-optimized response:\n"
        \o "´´´typescript\n"
        \o "// Complete file: userService.ts\n"
        \o "import { db } from './database';\n"
        \o "import { User } from './types';\n"
        \o "\n"
        \o "// Simple function - one responsibility\n"
        \o "export async function getUser(id: string): Promise<User | null> {\n"
        \o "  const result = await db.query('SELECT * FROM users WHERE id = $1', [id]);\n"
        \o "  return result.rows[0] || null;\n"
        \o "}\n"
        \o "´´´\n",
    claude |->
      "\n"
        \o "## Claude-Specific Interaction Rules\n"
        \o "\n"
        \o "When working with Claude:\n"
        \o "1. Break complex tasks into clear steps\n"
        \o "2. Ask for clarification before making assumptions\n"
        \o "3. Provide reasoning before code\n"
        \o "4. Use markdown for better readability\n"
        \o "\n"
        \o "Claude Response Pattern:\n"
        \o "1. Understand the problem\n"
        \o "2. Propose simple solution\n"
        \o "3. Implement with clear code\n"
        \o "4. Explain tradeoffs\n",
    copilot |->
      "\n"
        \o "## GitHub Copilot Optimization Rules\n"
        \o "\n"
        \o "For better Copilot suggestions:\n"
        \o "1. Write descriptive function names\n"
        \o "2. Add clear comments before functions\n"
        \o "3. Use consistent naming patterns\n"
        \o "4. Start with test cases when possible\n"
        \o "\n"
        \o "Example:\n"
        \o "´´´javascript\n"
        \o "// Get user by email address from database\n"
        \o "// Returns null if user not found\n"
        \o "function getUserByEmail(email) {\n"
        \o "  // Copilot will complete this better with clear intent\n"
        \o "}\n"
        \o "´´´\n" ]

\* private loadExamples(): the example fragments, by project type.
loadExamples ==
  [ react |->
      "\n"
        \o "## React-Specific Examples\n"
        \o "\n"
        \o "HICKEY PRINCIPLE in React:\n"
        \o "BAD: Component doing everything\n"
        \o "´´´jsx\n"
        \o "function UserDashboard() {\n"
        \o "  // Fetching, validation, display, state - all mixed\n"
        \o "  const [user, setUser] = useState();\n"
        \o "  useEffect(() => { /* fetch */ }, []);\n"
        \o "  if (!user.email.includes('@')) { /* validation */ }\n"
        \o "  return <div>...</div>;\n"
        \o "}\n"
        \o "´´´\n"
        \o "\n"
        \o "GOOD: Separated concerns\n"
        \o "´´´jsx\n"
        \o "// Custom hook for data\n"
        \o "function useUser(id) { /* fetching logic */ }\n"
        \o "\n"
        \o "// Pure component for display\n"
        \o "function UserDisplay({ user }) { /* only display */ }\n"
        \o "\n"
        \o "// Composition\n"
        \o "function UserDashboard() {\n"
        \o "  const user = useUser(id);\n"
        \o "  return <UserDisplay user={user} />;\n"
        \o "}\n"
        \o "´´´\n",
    node |->
      "\n"
        \o "## Node.js-Specific Examples\n"
        \o "\n"
        \o "LINUS PRINCIPLE in Node.js:\n"
        \o "BAD: Overengineered API\n"
        \o "´´´javascript\n"
        \o "class AbstractRepositoryFactory {\n"
        \o "  createRepository(type) {\n"
        \o "    return new RepositoryBuilder()\n"
        \o "      .withType(type)\n"
        \o "      .withCache()\n"
        \o "      .withValidation()\n"
        \o "      .build();\n"
        \o "  }\n"
        \o "}\n"
        \o "´´´\n"
        \o "\n"
        \o "GOOD: Simple and direct\n"
        \o "´´´javascript\n"
        \o "const users = require('./users.json');\n"
        \o "\n"
        \o "function getUser(id) {\n"
        \o "  return users.find(u => u.id === id);\n"
        \o "}\n"
        \o "´´´\n" ]

\* A fragment of a library other than the shipped one: a heading and filler
\* text, n characters in all.
fragmentText(title, n) == padTo("\n## " \o title \o "\n", n)

\* Core fragments: the shipped one and short ones of chosen lengths.  The
\* assembly depends on a fragment through its text and its length only.
CoreFragments == {getCorePrompt} \cup {padTo("# Z\n\nRules.\n", n) : n \in {80, 160, 200}}

emptyMap == [k \in {} |-> ""]

\* Extended fragment maps: the shipped one, the empty one, and maps with
\* and without the default key, with an empty text, with short and with
\* long fragments.
ExtendedMaps ==
  { loadExtendedPrompts,
    emptyMap,
    [cursor |-> fragmentText("Cursor Rules", 40), claude |-> fragmentText("Claude Rules", 60),
     copilot |-> fragmentText("Copilot Rules", 40)],
    [cursor |-> fragmentText("Cursor Rules", 80), claude |-> fragmentText("Claude Rules", 200)],
    [cursor |-> fragmentText("Cursor Rules", 40), claude |-> ""],
    [claude |-> fragmentText("Claude Rules", 40)],
    [cursor |-> fragmentText("Cursor Rules", 30000)] }

\* Example fragment maps: the shipped one, the empty one, short and long
\* fragments.
ExampleMaps ==
  { loadExamples,
    emptyMap,
    [react |-> fragmentText("React", 16), node |-> fragmentText("Node", 20)],
    [react |-> fragmentText("React", 200), node |-> fragmentText("Node", 100)] }

\* A document with the section the header pattern of truncatePrompt names
\* and the goal marker under a heading.
principlesDoc ==
  "# Z\n\nRules.\n\n## Core Principles\nSimple.\n\n### ZEUS\n¤¥ OBJECTIVE: goal\n"

\* The same with the three other markers, the section enhanceCodeSections
\* names, a checkbox item and a bold phrase.
guidelinesDoc ==
  principlesDoc \o "£¢ IMPLEMENTATION: code\n⚠° TRADEOFFS: cost\n£¦ VALIDATION: test\n\n"
    \o "## Implementation Guidelines\n- [ ] **Bold** item\n"

\* Profile tables: the shipped one, tables with one small ceiling for every
\* destination, and one with ceilings near the sizes of rewritten documents.
uniformLimits(c) == limitsTable(c, c, c, 14, c)

LimitTables ==
  {initializePlatformLimits, limitsTable(600, 1500, 300, 14, 500)}
    \cup {uniformLimits(50 * k) : k \in 0..MaxTable}

\* Destinations: the four registered ones, one with an extended fragment but
\* no profile, one with neither.
Platforms == {"cursor", "claude", "ollama", "universal", "copilot", "gemini"}

PackageJsons ==
  { noPackageJson,
    packageJsonOf("{\"dependencies\":{\"react\":\"18\"}}"),
    packageJsonOf("{\"dependencies\":{\"express\":\"4\",\"vue\":\"3\"}}"),
    packageJsonOf("{\"dependencies\":{\"fastify\":\"4\"}}") }

usageFooter == "\n\n## Usage Instructions\nPaste it."

\* Documents handed to optimize.
OptimizeDocs ==
  { "plain text only",
    guidelinesDoc \o "\n\nBody one.\n\nBody two." \o usageFooter,
    getCorePrompt,
    "# T\n\nIntro.\n\n### µÿ¯ OBJECTIVE\n#### Deep\n##### Deeper\n"
      \o "¤¥ OBJECTIVE: a\nµÿ¯ OBJECTIVE: b\n**Bold** text $& $1\n- [ ] todo\n",
    padTo("# Title ", 56) \o "\n\nIntro.\n\n",
    "# T\n\nIntro.\n\nA\nB\n" \o rep("x", 10),
    "# T\n\nIntro.\n\n**¤¥** x\n### ¤¥ OBJECTIVE\n",
    "# T\n\n" \o rep("Paragraph of text.\n\n", 30) \o usageFooter }

\* Documents handed to the truncation functions: an optional header, up to
\* MaxParas paragraphs of two sizes, an optional footer.
TruncHeads ==
  { "",
    "# T\n\nIntro.\n\n## Core Principles\n- simple\n\n",
    "# T\n\nIntro.\n\n## Core Principles\n" \o rep("- simple first\n", 6) \o "\n",
    "# T\n\nIntro.\n\n## Other\n\n" }

RECURSIVE TruncBodies(_)
TruncBodies(n) ==
  IF n = 0 THEN {""}
  ELSE LET shorter == TruncBodies(n - 1)
       IN  shorter \cup {b \o p : b \in shorter,
                                 p \in {"Short.\n\n", rep("long text ", 4) \o "\nmore.\n\n"}}

TruncFeet == {"", "tail", usageFooter, "\n\n## Usage Instructions\n" \o rep("step\n", 8)}

TruncDocs == {h \o b \o f : h \in TruncHeads, b \in TruncBodies(MaxParas), f \in TruncFeet}

Ceilings == {7 * k : k \in 0..MaxCeil}

LineLimits == 0..MaxLineLimit

\* Preambles handed to insertAfterHeader: the four of the pipelines.
Preambles == {cursorPrefix, claudePrefix, ollamaPrefix, universalPrefix}

\* Openings of the documents handed to insertAfterHeader: a title with its
\* blank line, first paragraph and blank line at the start of the document,
\* the same after other text, and titles that lack a part of the structure.
HeaderOpenings ==
  { "# T\n\nIntro.\n\n",
    "# Title line\n\nFirst paragraph\nof two lines.\n\n",
    "# T $& a\n\nCosts $$5 or $1.\n\n",
    "# T\n\nSee $' here.\n\n",
    "# T\n\nRun ´$´ there.\n\n",
    "Preface.\n\n# T\n\nIntro.\n\n",
    "\n# T\n\nIntro.\n\n",
    "# T\nSubtitle\n\nIntro.\n\n",
    "# T\n\n\n\n",
    "## T\n\nIntro.\n\n",
    "#T\n\nIntro.\n\n",
    "# T\n\nIntro.",
    "# T\n\n",
    "Plain text.\n\n",
    "" }

\* What follows the opening.
HeaderRests == {"", "## Core Principles\n- simple\n\nBody.\n", "# Second\n\nMore.\n\nEnd."}

HeaderDocs == {o \o r : o \in HeaderOpenings, r \in HeaderRests}

\* Documents handed to removeEmojis: the core fragment, documents with its
\* glyphs, text with the code unit sequences of the patterns of
\* removeEmojis, both, and text with neither.
GlyphDocs ==
  { getCorePrompt, principlesDoc, guidelinesDoc,
    "¤¥ OBJECTIVE: a\n¤¥ OBJECTIVE: b\n",
    "⚠° TRADEOFFS and ⚠ alone\n",
    "µÿ¯ OBJECTIVE: a\nµÿ»§ IMPLEMENTATION\nâß·ï¸ TRADEOFFS\nµÿ«ˆ VALIDATION\n",
    "¤¥ one µÿ¯ two £¦ three\n",
    "No glyph at all.\n",
    "" }

\* Documents handed to enhanceStructuredSections: the goal marker in its
\* inline form and in its heading form, written with the glyph of the core
\* fragment and with the code unit sequence of the patterns, one form
\* alone, both forms together, and text without the marker.
MarkerDocs ==
  { getCorePrompt, principlesDoc, guidelinesDoc,
    "¤¥ OBJECTIVE: a\n",
    "### ¤¥ OBJECTIVE\nb\n",
    "µÿ¯ OBJECTIVE: a\n",
    "µÿ¯ OBJECTIVE: a\nµÿ¯ OBJECTIVE: b\n",
    "### µÿ¯ OBJECTIVE\nb\n",
    "### µÿ¯ OBJECTIVE\nb\n### µÿ¯ OBJECTIVE\nc\n",
    "### µÿ¯ OBJECTIVE\nb\nµÿ¯ OBJECTIVE: a\n",
    "# T\n\nIntro.\n\nµÿ¯ OBJECTIVE: a\n\n### µÿ¯ OBJECTIVE\nb\n",
    "OBJECTIVE without a glyph\n",
    "" }

\* Documents handed to simplifyStructure: a heading of each level, bold
\* phrases, checkbox and plain list items and plain text, every line alone
\* and documents of several lines.
StructureDocs ==
  {l \o "\n" : l \in
     { "# One", "## Two", "### Three", "#### Four", "##### Five", "###### Six",
       "**Bold** text", "Both **a** and **b**.", "- [ ] todo", "- item", "Plain text." }}
  \cup { "# One\n\n## Two\n### Three\n#### Four\n- [ ] todo\n**Bold** text\n",
         "### Three\n##### Five\n###### Six\n**Key** value\n- [ ] a\n- [ ] b\n",
         "Plain text.\nNo markup.\n",
         "" }

\* Largest number of command line arguments.
MaxArgs == 3

\* Command line arguments: registered and unregistered command names,
\* flags of the generate command, a prefix of one, an undeclared flag, the
\* help and version flags, a value and the empty argument.
ArgTokens ==
  { "generate", "demo", "bogus", "-p", "--platform", "--pla", "-o", "-x",
    "-h", "-v", "cursor", "" }

\* Largest length of the filler texts handed to estimateTokens.
MaxText == 120

\* Texts handed to estimateTokens: filler of every length up to MaxText and
\* fragments with glyphs of two code units.
EstimateTexts ==
  {rep("x", n) : n \in 0..MaxText} \cup {"¤¥", "⚠° OK", principlesDoc, guidelinesDoc, getCorePrompt}

(***************************************************************************)
(* State machine                                                           *)
(***************************************************************************)
idle == [op |-> "idle"]

\* new AdaptivePromptGenerator(): loadPrompts() fills the fragment library,
\* new PlatformOptimizer() the profile table.  Library and table are the
\* configuration of the construction: next to the shipped fragments and
\* the shipped table they range over the other libraries and tables
\* above, and are never written afterwards.
Init ==
  /\ corePrompt \in CoreFragments
  /\ extendedPrompts \in ExtendedMaps
  /\ examples \in ExampleMaps
  /\ platformLimits \in LimitTables
  /\ call = idle

\* Variant of Generate that stores the extended fragment it resolved under
\* the requested destination.
GenerateCaching(platform, packageJson) ==
  /\ call = idle
  /\ call' = [op |-> "generate", platform |-> platform, packageJson |-> packageJson,
              optimization |-> assembleAdaptivePrompt(platform, packageJson),
              result |-> generate(platform, packageJson)]
  /\ extendedPrompts' =
       [k \in DOMAIN extendedPrompts \cup {platform} |->
          IF k = platform THEN resolveExtended(platform) ELSE extendedPrompts[k]]
  /\ UNCHANGED <<corePrompt, examples, platformLimits>>

\* generate(config) in a working directory with the given package.json;
\* optimization is the local of generate that holds the assembly.
Generate(platform, packageJson) ==
  /\ call = idle
  /\ call' = [op |-> "generate", platform |-> platform, packageJson |-> packageJson,
              optimization |-> assembleAdaptivePrompt(platform, packageJson),
              result |-> generate(platform, packageJson)]
  /\ UNCHANGED <<corePrompt, extendedPrompts, examples, platformLimits>>

\* optimize(prompt, config).
Optimize(prompt, platform) ==
  /\ call = idle
  /\ call' = [op |-> "optimize", platform |-> platform, prompt |-> prompt,
              result |-> optimize(prompt, platform)]
  /\ UNCHANGED <<corePrompt, extendedPrompts, examples, platformLimits>>

\* truncatePrompt(prompt, maxChars).
TruncatePrompt(prompt, maxChars) ==
  /\ call = idle
  /\ call' = [op |-> "truncatePrompt", prompt |-> prompt, maxChars |-> maxChars,
              result |-> truncatePrompt(prompt, maxChars)]
  /\ UNCHANGED <<corePrompt, extendedPrompts, examples, platformLimits>>

\* truncateByLines(prompt, maxLines).
TruncateByLines(prompt, maxLines) ==
  /\ call = idle
  /\ call' = [op |-> "truncateByLines", prompt |-> prompt, maxLines |-> maxLines,
              result |-> truncateByLines(prompt, maxLines)]
  /\ UNCHANGED <<corePrompt, extendedPrompts, examples, platformLimits>>

\* estimateTokens(text).
EstimateTokens(text) ==
  /\ call = idle
  /\ call' = [op |-> "estimateTokens", text |-> text, result |-> estimateTokens(text)]
  /\ UNCHANGED <<corePrompt, extendedPrompts, examples, platformLimits>>

\* insertAfterHeader(prompt, content).
InsertAfterHeader(prompt, content) ==
  /\ call = idle
  /\ call' = [op |-> "insertAfterHeader", prompt |-> prompt, content |-> content,
              result |-> insertAfterHeader(prompt, content)]
  /\ UNCHANGED <<corePrompt, extendedPrompts, examples, platformLimits>>

\* removeEmojis(prompt).
RemoveEmojis(prompt) ==
  /\ call = idle
  /\ call' = [op |-> "removeEmojis", prompt |-> prompt, result |-> removeEmojis(prompt)]
  /\ UNCHANGED <<corePrompt, extendedPrompts, examples, platformLimits>>

\* enhanceStructuredSections(prompt).
EnhanceStructuredSections(prompt) ==
  /\ call = idle
  /\ call' = [op |-> "enhanceStructuredSections", prompt |-> prompt,
              result |-> enhanceStructuredSections(prompt)]
  /\ UNCHANGED <<corePrompt, extendedPrompts, examples, platformLimits>>

\* simplifyStructure(prompt).
SimplifyStructure(prompt) ==
  /\ call = idle
  /\ call' = [op |-> "simplifyStructure", prompt |-> prompt,
              result |-> simplifyStructure(prompt)]
  /\ UNCHANGED <<corePrompt, extendedPrompts, examples, platformLimits>>

\* getPlatformLimit(platform).
GetPlatformLimit(platform) ==
  /\ call = idle
  /\ call' = [op |-> "getPlatformLimit", platform |-> platform,
              result |-> getPlatformLimit(platform)]
  /\ UNCHANGED <<corePrompt, extendedPrompts, examples, platformLimits>>

\* program.parse(argv).
Parse(args) ==
  /\ call = idle
  /\ call' = [op |-> "parse", args |-> args, result |-> parse(args)]
  /\ UNCHANGED <<corePrompt, extendedPrompts, examples, platformLimits>>

\* The call returns to its caller.
Return ==
  /\ call # idle
  /\ call' = idle
  /\ UNCHANGED <<corePrompt, extendedPrompts, examples, platformLimits>>

Next ==
  \/ \E platform \in Platforms, packageJson \in PackageJsons : Generate(platform, packageJson)
  \/ Return

\* The generator: every library and profile table, every request.
Spec == Init /\ [][Next]_vars

\* The library after loadPrompts().
InitFixedLibrary ==
  /\ corePrompt = getCorePrompt
  /\ extendedPrompts = loadExtendedPrompts
  /\ examples = loadExamples
  /\ call = idle

InitOptimize == InitFixedLibrary /\ platformLimits \in LimitTables

NextOptimize ==
  \/ \E prompt \in OptimizeDocs, platform \in Platforms : Optimize(prompt, platform)
  \/ Return

\* The optimizer on its own: every profile table, every document and
\* destination.
SpecOptimize == InitOptimize /\ [][NextOptimize]_vars

InitTrunc == InitFixedLibrary /\ platformLimits = initializePlatformLimits

NextTrunc ==
  \/ \E prompt \in TruncDocs, maxChars \in Ceilings : TruncatePrompt(prompt, maxChars)
  \/ \E prompt \in TruncDocs, maxLines \in LineLimits : TruncateByLines(prompt, maxLines)
  \/ Return

\* The truncation functions on their own.
SpecTrunc == InitTrunc /\ [][NextTrunc]_vars

InitEstimate == InitFixedLibrary /\ platformLimits = initializePlatformLimits

NextEstimate ==
  \/ \E text \in EstimateTexts : EstimateTokens(text)
  \/ Return

\* The cost estimator on its own.
SpecEstimate == InitEstimate /\ [][NextEstimate]_vars

InitRewrite == InitFixedLibrary /\ platformLimits = initializePlatformLimits

NextRewrite ==
  \/ \E prompt \in HeaderDocs, content \in Preambles : InsertAfterHeader(prompt, content)
  \/ \E prompt \in GlyphDocs : RemoveEmojis(prompt)
  \/ \E prompt \in MarkerDocs : EnhanceStructuredSections(prompt)
  \/ \E prompt \in StructureDocs : SimplifyStructure(prompt)
  \/ Return

\* The rewrite steps of the pipelines on their own.
SpecRewrite == InitRewrite /\ [][NextRewrite]_vars

\* One process: a generator with its optimizer, the shipped library and a
\* library of short fragments, two profile tables.
InitProcess ==
  /\ corePrompt \in {getCorePrompt, padTo("# Z\n\nRules.\n", 80)}
  /\ extendedPrompts \in
       {loadExtendedPrompts, [cursor |-> fragmentText("Cursor Rules", 40), claude |-> ""]}
  /\ examples \in
       {loadExamples, [react |-> fragmentText("React", 16), node |-> fragmentText("Node", 20)]}
  /\ platformLimits \in {initializePlatformLimits, limitsTable(600, 1500, 300, 14, 500)}
  /\ call = idle

\* Every public call and the truncations the pipelines make, in any order;
\* truncation takes its limits from the profile table as the pipelines do.
NextProcess ==
  \/ \E platform \in Platforms, packageJson \in PackageJsons : Generate(platform, packageJson)
  \/ \E prompt \in OptimizeDocs, platform \in Platforms : Optimize(prompt, platform)
  \/ \E prompt \in OptimizeDocs, platform \in DOMAIN platformLimits :
       TruncatePrompt(prompt, platformLimits[platform].maxCharacters)
  \/ \E prompt \in OptimizeDocs : TruncateByLines(prompt, platformLimits["ollama"].maxLines)
  \/ \E platform \in Platforms : GetPlatformLimit(platform)
  \/ Return

\* The calls of one process in any order.
SpecProcess == InitProcess /\ [][NextProcess]_vars

InitCli == InitFixedLibrary /\ platformLimits = initializePlatformLimits

NextCli ==
  \/ \E args \in UNION {[1..n -> ArgTokens] : n \in 0..MaxArgs} : Parse(args)
  \/ Return

\* The command line parser on its own.
SpecCli == InitCli /\ [][NextCli]_vars

(***************************************************************************)
(* Properties                                                              *)
(***************************************************************************)
\* C1: whenever truncatePrompt runs on a document longer than the ceiling,
\* the document it returns is at most ceiling characters long, for every
\* ceiling, in every branch.
C1_TruncateWithinCeiling ==
  (call.op = "truncatePrompt" /\ Len(call.prompt) > call.maxChars)
    => Len(call.result) <= call.maxChars

\* C2: on the claude profile, a document that is longer than the ceiling
\* after header injection, emphasis rewrite and appendix is truncated, so
\* the document optimize returns is at most ceiling characters long.
C2_ClaudeWithinCeiling ==
  (/\ call.op = "optimize"
   /\ call.platform = "claude"
   /\ Len(claudeRewrite(call.prompt)) > platformLimits["claude"].maxCharacters)
    => Len(call.result.optimizedPrompt) <= platformLimits["claude"].maxCharacters

\* C3: on the ollama profile, a document that is within the character
\* ceiling after the character pass is still within it after the line pass.
C3_OllamaLinePassWithinCeiling ==
  (/\ call.op = "optimize"
   /\ call.platform = "ollama"
   /\ Len(ollamaAfterChars(call.prompt)) <= platformLimits["ollama"].maxCharacters)
    => Len(call.result.optimizedPrompt) <= platformLimits["ollama"].maxCharacters

\* C4: the systemPrompt generate returns is the assembly after the profile
\* rewrite and the truncation, not the assembly itself.
C4_GenerateReturnsOptimizedAssembly ==
  call.op = "generate"
    => call.result.systemPrompt
         = optimize(call.optimization.optimizedPrompt, call.platform).optimizedPrompt

\* The ceiling of the profile a destination resolves to: its own profile,
\* the default (universal) profile for an unregistered destination.
profileCeiling(platform) ==
  IF platform \in DOMAIN platformLimits
  THEN platformLimits[platform].maxCharacters
  ELSE platformLimits["universal"].maxCharacters

\* C5: the first applied step of every assembly is "core" and the core
\* fragment is the prefix of the assembled document.
C5_CoreFirst ==
  call.op = "generate"
    => /\ Len(call.optimization.appliedOptimizations) >= 1
       /\ call.optimization.appliedOptimizations[1] = "core"
       /\ startsWith(call.optimization.optimizedPrompt, corePrompt)

\* C5 witness: an assembly for a destination whose ceiling is so small that
\* the estimate of the core fragment alone exceeds 0.9 x ceiling.
C5_Witness ==
  /\ call.op = "generate"
  /\ profileCeiling(call.platform) > 0
  /\ 10 * estimateTokens(corePrompt) > 9 * profileCeiling(call.platform)
  /\ call.optimization.appliedOptimizations = <<"core">>

\* The labels of an assembly.
appliedSteps == {call.optimization.appliedOptimizations[i] :
                   i \in DOMAIN call.optimization.appliedOptimizations}

\* The fragments resolved for the request of the call.
extendedOfCall == resolveExtended(call.platform)

examplesOfCall == resolveExamples(call.packageJson)

\* C6: if the label extended is applied then estimate(core) +
\* estimate(extended) < 0.7 x ceiling, and if the label examples is applied
\* then estimate(core) + (estimate(extended) if included) +
\* estimate(examples) < 0.9 x ceiling, the ceiling being the one of the
\* profile of the requested destination.
C6_BudgetRespected ==
  call.op = "generate" =>
    LET C == profileCeiling(call.platform)
        core == estimateTokens(corePrompt)
        extended == IF "extended" \in appliedSteps
                    THEN estimateTokens(extendedOfCall) ELSE 0
    IN  /\ "extended" \in appliedSteps => 10 * (core + extended) < 7 * C
        /\ "examples" \in appliedSteps =>
             10 * (core + extended + estimateTokens(examplesOfCall)) < 9 * C

\* The applied steps the stated decision rule yields for ceiling C.
decidedSteps(C, extended, examplesText) ==
  LET core == estimateTokens(corePrompt)
      extendedIn == extended # "" /\ 10 * (core + estimateTokens(extended)) < 7 * C
      cost == core + (IF extendedIn THEN estimateTokens(extended) ELSE 0)
      examplesIn == examplesText # "" /\ 10 * (cost + estimateTokens(examplesText)) < 9 * C
  IN  <<"core">> \o (IF extendedIn THEN <<"extended">> ELSE <<>>)
                 \o (IF examplesIn THEN <<"examples">> ELSE <<>>)

\* C7: extended is appended if and only if the resolved extended fragment is
\* non-empty and cost + estimate(extended) < 0.7 x C, then examples is
\* appended if and only if the resolved example fragment is non-empty and
\* the cumulative cost + estimate(examples) < 0.9 x C, where C is the ceiling
\* of the profile of the destination.
C7_InclusionDecisions ==
  call.op = "generate" =>
    call.optimization.appliedOptimizations
      = decidedSteps(profileCeiling(call.platform), extendedOfCall, examplesOfCall)

\* Scenario B: a registered destination of ceiling 50, a core fragment of
\* estimate 40 and an extended fragment of estimate 20.
scenarioB ==
  /\ call.op = "generate"
  /\ call.platform \in DOMAIN platformLimits
  /\ platformLimits[call.platform].maxCharacters = 50
  /\ estimateTokens(corePrompt) = 40
  /\ estimateTokens(extendedOfCall) = 20

\* C8 (as stated): in scenario B the extended fragment is skipped and the
\* examples fragment is skipped whatever its size, so the applied steps are
\* [core].
C8_ScenarioBOnlyCore ==
  scenarioB => call.optimization.appliedOptimizations = <<"core">>

\* C8 (amended): in scenario B the extended fragment is skipped, and the
\* examples fragment is skipped exactly when it is empty or its estimate is
\* at least 5 (40 + 5 = 45 is not < 45); a non-empty example fragment of
\* estimate at most 4 is appended and the applied steps are [core, examples].
C8_ScenarioBAmended ==
  scenarioB =>
    /\ "extended" \notin appliedSteps
    /\ call.optimization.appliedOptimizations =
         IF examplesOfCall # "" /\ estimateTokens(examplesOfCall) <= 4
         THEN <<"core", "examples">> ELSE <<"core">>

\* C8 witness: scenario B with a non-empty example fragment of estimate 4,
\* which is appended.
C8_Witness ==
  /\ scenarioB
  /\ examplesOfCall # ""
  /\ estimateTokens(examplesOfCall) = 4
  /\ call.optimization.appliedOptimizations = <<"core", "examples">>

\* C9: a request for an unknown destination yields, through the assembler
\* and through the transformer and truncator, the result of the same request
\* for the default destination universal: same applied steps, same document,
\* same warnings.
C9_UnknownIsUniversal ==
  (call.op = "generate" /\ call.platform \notin DOMAIN platformLimits) =>
    /\ call.optimization = assembleAdaptivePrompt("universal", call.packageJson)
    /\ optimize(call.optimization.optimizedPrompt, call.platform)
         = optimize(call.optimization.optimizedPrompt, "universal")

\* The fragment a pool holds under a key: a key that is absent or holds the
\* empty text has no fragment.
stored(pool, key) == IF key \in DOMAIN pool THEN pool[key] ELSE ""

\* The extended fragment as the contract resolves it: the one of the
\* destination, else the one of cursor, else empty.
contractExtended(platform) ==
  IF stored(extendedPrompts, platform) # "" THEN stored(extendedPrompts, platform)
  ELSE stored(extendedPrompts, "cursor")

\* The example fragment as the contract resolves it: the one of the
\* category, else empty.
contractExamples(category) == stored(examples, category)

\* C10: the extended fragment is the one stored under the destination, else
\* the one stored under cursor, else empty; the example fragment is the one
\* stored under the category, else empty; the request returns a result in
\* every case, and a missing fragment shows only in that its label is not
\* applied and its text is not appended: a fragment that is present is
\* skipped by its budget test alone, no warning is raised and the document
\* is the core followed by the applied fragments.
C10_FragmentResolution ==
  call.op = "generate" =>
    LET extended == contractExtended(call.platform)
        examplesText == contractExamples(detectProjectType(call.packageJson))
    IN  /\ extended = "" => "extended" \notin appliedSteps
        /\ examplesText = "" => "examples" \notin appliedSteps
        /\ call.optimization.appliedOptimizations
             = decidedSteps(getPlatformLimit(call.platform), extended, examplesText)
        /\ call.optimization.optimizedPrompt =
             corePrompt
               \o (IF "extended" \in appliedSteps THEN "\n\n" \o extended ELSE "")
               \o (IF "examples" \in appliedSteps THEN "\n\n" \o examplesText ELSE "")
        /\ call.optimization.warnings = <<>>
        /\ call.result.systemPrompt = call.optimization.optimizedPrompt

\* C10 witness: a request whose destination has a fragment through the
\* cursor fallback only, applied, and whose category has no example fragment.
C10_Witness ==
  /\ call.op = "generate"
  /\ stored(extendedPrompts, call.platform) = ""
  /\ stored(extendedPrompts, "cursor") # ""
  /\ examples # emptyMap
  /\ contractExamples(detectProjectType(call.packageJson)) = ""
  /\ call.optimization.appliedOptimizations = <<"core", "extended">>

\* The document of an optimize run just before its truncation stage.
preTruncation(prompt, platform) ==
  CASE platform = "cursor" -> cursorRewrite(prompt)
    [] platform = "claude" -> claudeRewrite(prompt)
    [] platform = "ollama" -> ollamaRewrite(prompt)
    [] OTHER -> universalRewrite(prompt)

\* TRUE iff one of the warnings mentions "truncated".
mentionsTruncated(warnings) ==
  \E i \in DOMAIN warnings : includes(warnings[i], "truncated")

\* C11 (as stated): the warnings of an optimize run hold a warning
\* mentioning "truncated" if and only if the length of the final document
\* differs from the length the document had just before the truncation stage.
C11_WarningIffLengthDiffers ==
  call.op = "optimize" =>
    (mentionsTruncated(call.result.warnings)
      <=> Len(call.result.optimizedPrompt)
            # Len(preTruncation(call.prompt, call.platform)))

\* C11 (amended): the warnings of an optimize run hold a warning mentioning
\* "truncated" if and only if the final document differs from the document
\* just before the truncation stage; the two may have the same length, since
\* the line pass puts 40 characters in the place of the lines it drops.
C11_WarningIffDocumentDiffers ==
  call.op = "optimize" =>
    (mentionsTruncated(call.result.warnings)
      <=> call.result.optimizedPrompt # preTruncation(call.prompt, call.platform))

\* C11 witness: an optimize run whose line pass ran and warned, and whose
\* final document is as long as the one before the truncation stage.
C11_Witness ==
  /\ call.op = "optimize"
  /\ call.platform = "ollama"
  /\ mentionsTruncated(call.result.warnings)
  /\ call.result.optimizedPrompt # preTruncation(call.prompt, call.platform)
  /\ Len(call.result.optimizedPrompt) = Len(preTruncation(call.prompt, call.platform))

\* The profile an optimize run reads: the one of the destination, the
\* universal one for every destination without a pipeline of its own.
profileOf(platform) ==
  IF platform \in {"cursor", "claude", "ollama"}
  THEN platformLimits[platform] ELSE platformLimits["universal"]

\* TRUE iff the character pass of an optimize run executes.
characterPassRuns(prompt, platform) ==
  /\ platform # "claude"
  /\ Len(preTruncation(prompt, platform)) > profileOf(platform).maxCharacters

\* The document of an optimize run after its character pass.
afterCharacterPass(prompt, platform) ==
  IF characterPassRuns(prompt, platform)
  THEN truncatePrompt(preTruncation(prompt, platform), profileOf(platform).maxCharacters)
  ELSE preTruncation(prompt, platform)

\* TRUE iff the line pass of an optimize run executes.
linePassRuns(prompt, platform) ==
  /\ platform = "ollama"
  /\ profileOf(platform).maxLines # 0
  /\ Len(splitLines(afterCharacterPass(prompt, platform))) > profileOf(platform).maxLines

\* The warnings of a result that mention "truncated", in their order.
truncationWarnings(warnings) ==
  SelectSeq(warnings, LAMBDA w : includes(w, "truncated"))

\* C12: every truncation pass that executes appends exactly one warning
\* naming the limit that triggered it (the character ceiling for the
\* character pass, the line limit for the line pass), the character warning
\* before the line warning; the warnings are returned in the result with
\* the truncated document, and no pass runs without its warning.
C12_OneWarningPerPass ==
  call.op = "optimize" =>
    LET limits == profileOf(call.platform)
        chars == characterPassRuns(call.prompt, call.platform)
        lines == linePassRuns(call.prompt, call.platform)
        warned == truncationWarnings(call.result.warnings)
    IN  /\ Len(warned) = (IF chars THEN 1 ELSE 0) + (IF lines THEN 1 ELSE 0)
        /\ chars => includes(warned[1], ToString(limits.maxCharacters) \o " characters")
        /\ lines => includes(warned[Len(warned)], ToString(limits.maxLines) \o " lines")
        /\ call.result.optimizedPrompt =
             IF lines
             THEN truncateByLines(afterCharacterPass(call.prompt, call.platform),
                                  limits.maxLines)
             ELSE afterCharacterPass(call.prompt, call.platform)

\* C12 witness: an optimize run in which the character pass and then the
\* line pass executed, with the two warnings in that order.
C12_Witness ==
  /\ call.op = "optimize"
  /\ characterPassRuns(call.prompt, call.platform)
  /\ linePassRuns(call.prompt, call.platform)
  /\ Len(call.result.warnings) = 2
  /\ includes(call.result.warnings[1], "characters")
  /\ includes(call.result.warnings[2], "lines")

\* footerLength and availableChars of truncatePrompt (lines 401 and 404).
footerLength(prompt) ==
  IF footerIndex(prompt) = -1 THEN 0 ELSE Len(prompt) - footerIndex(prompt)

availableChars(prompt, maxChars) ==
  maxChars - Len(truncationMessage) - footerLength(prompt)

\* The header region and the footer text of a document.
headerOf(prompt) == substring(prompt, 0, truncHeaderLength(prompt))

footerOf(prompt) ==
  IF footerIndex(prompt) = -1 THEN "" ELSE substringFrom(prompt, footerIndex(prompt))

\* The middle slice of step 4: what is available after the header, cut back
\* to its last paragraph break when that break lies after 80% of the slice.
trimmedMiddle(prompt, maxChars) ==
  LET available == availableChars(prompt, maxChars) - truncHeaderLength(prompt)
      middle == substring(prompt, truncHeaderLength(prompt),
                          truncHeaderLength(prompt) + available)
      break == lastIndexOf(middle, "\n\n")
  IN  IF 10 * break > 8 * available THEN substring(middle, 0, break) ELSE middle

\* A truncatePrompt call on a document that is longer than the ceiling, has
\* a footer, and leaves at least 0.3 x its length available.
footerCase ==
  /\ call.op = "truncatePrompt"
  /\ Len(call.prompt) > call.maxChars
  /\ footerIndex(call.prompt) # -1
  /\ 10 * availableChars(call.prompt, call.maxChars) >= 3 * Len(call.prompt)

\* The result of the header-preserving branch: header, trimmed middle,
\* marker and footer, within the ceiling.
headerPreserved ==
  /\ call.result = headerOf(call.prompt) \o trimmedMiddle(call.prompt, call.maxChars)
                     \o truncationMessage \o footerOf(call.prompt)
  /\ Len(call.result) <= call.maxChars
  /\ startsWith(call.result, headerOf(call.prompt))
  /\ endsWith(call.result, footerOf(call.prompt))

\* C13 (as stated): a document longer than the ceiling with a footer and
\* available = ceiling - markerLength - footerLength >= 0.3 x length is
\* returned as header + trimmedMiddle + marker + footer, within the ceiling,
\* the header region its prefix and the footer its suffix.
C13_HeaderPreservingBranch == footerCase => headerPreserved

\* C13 (amended): the same, provided the available characters exceed the
\* length of the header region (mainContentAvailable > 0).
C13_HeaderPreservingBranchAmended ==
  (footerCase /\ availableChars(call.prompt, call.maxChars)
                   > truncHeaderLength(call.prompt))
    => headerPreserved

\* C13 witness: a header-preserving return with a header region, a middle
\* that was cut back to a paragraph break, and the footer.
C13_Witness ==
  /\ footerCase
  /\ truncHeaderLength(call.prompt) > 0
  /\ availableChars(call.prompt, call.maxChars) > truncHeaderLength(call.prompt)
  /\ trimmedMiddle(call.prompt, call.maxChars) # ""
  /\ Len(trimmedMiddle(call.prompt, call.maxChars))
       < availableChars(call.prompt, call.maxChars) - truncHeaderLength(call.prompt)
  /\ headerPreserved

\* A truncatePrompt call on a document that is longer than the ceiling and
\* either leaves less than 0.3 x its length available or has neither a
\* header region nor a footer.
simpleCase ==
  /\ call.op = "truncatePrompt"
  /\ Len(call.prompt) > call.maxChars
  /\ \/ 10 * availableChars(call.prompt, call.maxChars) < 3 * Len(call.prompt)
     \/ footerIndex(call.prompt) = -1 /\ truncHeaderLength(call.prompt) = 0

\* C14: in the simple case the output is the document cut at ceiling -
\* markerLength, the cut moved back to the last paragraph break of that
\* prefix if and only if the break lies after 80% of the cut point, followed
\* by the marker; the output ends with the marker, is at most ceiling
\* characters long and does not end with the footer.
C14_SimpleTruncation ==
  simpleCase =>
    LET cutPoint == call.maxChars - Len(truncationMessage)
        cut == substring(call.prompt, 0, cutPoint)
        break == lastIndexOf(cut, "\n\n")
        kept == IF 10 * break > 8 * cutPoint THEN substring(cut, 0, break) ELSE cut
    IN  /\ call.result = kept \o truncationMessage
        /\ endsWith(call.result, truncationMessage)
        /\ Len(call.result) <= call.maxChars
        /\ footerIndex(call.prompt) # -1 => ~endsWith(call.result, footerOf(call.prompt))

\* C15: for a document with more lines than the line limit, and every line
\* limit a profile may declare (1 and 2 included), truncateByLines returns
\* the first lineLimit - 2 lines of the document followed by a blank line
\* and the marker line, so the result has at most lineLimit lines.
C15_LineLimitRespected ==
  (/\ call.op = "truncateByLines"
   /\ call.maxLines >= 1
   /\ Len(splitLines(call.prompt)) > call.maxLines)
    => /\ splitLines(call.result)
            = SubSeq(splitLines(call.prompt), 1, call.maxLines - 2)
                \o <<"", "[Truncated for platform compatibility]">>
       /\ Len(splitLines(call.result)) <= call.maxLines

\* C16: estimateTokens returns the non-negative integer ceil(length / 4):
\* the least n with 4 n >= length; it is 0 exactly for the empty text, it is
\* non-decreasing in the length of the text, and the result of a call
\* depends on its text alone.
C16_EstimateIsCeilingOfQuarter ==
  call.op = "estimateTokens" =>
    /\ call.result \in Nat
    /\ 4 * call.result >= Len(call.text)
    /\ 4 * (call.result - 1) < Len(call.text)
    /\ call.result = 0 <=> call.text = ""
    /\ \A other \in EstimateTexts :
         /\ Len(other) <= Len(call.text) => estimateTokens(other) <= call.result
         /\ other = call.text => estimateTokens(other) = call.result

\* C16 witness: an estimate of a text whose length is no multiple of 4, so
\* that the quotient is rounded up.
C16_Witness ==
  /\ call.op = "estimateTokens"
  /\ Len(call.text) % 4 = 1
  /\ Len(call.text) > 4
  /\ 4 * call.result = Len(call.text) + 3

\* The budget test of the extended step and of the examples step, as the
\* assembler performs them for the call: the cumulative cost and the
\* fragment against the limit the assembler reads.
extendedFits ==
  10 * (estimateTokens(corePrompt) + estimateTokens(extendedOfCall))
    < 7 * getPlatformLimit(call.platform)

examplesFit ==
  10 * (estimateTokens(corePrompt)
          + (IF "extended" \in appliedSteps THEN estimateTokens(extendedOfCall) ELSE 0)
          + estimateTokens(examplesOfCall))
    < 9 * getPlatformLimit(call.platform)

\* C17: the applied steps of an assembly are a subsequence of [core,
\* extended, examples] in that order that starts with core; the document is
\* the core, then separator and extended fragment if and only if the label
\* extended is applied, then separator and example fragment if and only if
\* the label examples is applied; a step whose budget test failed adds
\* neither label nor text, also when a later step is applied.
C17_StepsAndDocumentAgree ==
  call.op = "generate" =>
    /\ call.optimization.appliedOptimizations
         \in {<<"core">>, <<"core", "extended">>, <<"core", "examples">>,
              <<"core", "extended", "examples">>}
    /\ call.optimization.optimizedPrompt =
         corePrompt
           \o (IF "extended" \in appliedSteps THEN "\n\n" \o extendedOfCall ELSE "")
           \o (IF "examples" \in appliedSteps THEN "\n\n" \o examplesOfCall ELSE "")
    /\ ~extendedFits => "extended" \notin appliedSteps
    /\ ~examplesFit => "examples" \notin appliedSteps

\* C17 witness: an assembly whose extended fragment failed its budget test
\* and whose example fragment was applied afterwards.
C17_Witness ==
  /\ call.op = "generate"
  /\ extendedOfCall # ""
  /\ ~extendedFits
  /\ call.optimization.appliedOptimizations = <<"core", "examples">>
  /\ call.optimization.optimizedPrompt = corePrompt \o "\n\n" \o examplesOfCall

\* C18: in the header/footer branch of truncatePrompt, when
\* mainContentAvailable <= 0, the result is the simple truncation of the
\* whole document: the cut at ceiling - markerLength moved back to the last
\* paragraph break when that break lies after 80% of the cut point, then
\* the marker.
C18_FallbackIsSimpleTruncation ==
  (/\ call.op = "truncatePrompt"
   /\ Len(call.prompt) > call.maxChars
   /\ 10 * availableChars(call.prompt, call.maxChars) >= 3 * Len(call.prompt)
   /\ availableChars(call.prompt, call.maxChars) - truncHeaderLength(call.prompt) <= 0)
    => call.result = simpleTruncate(call.prompt, call.maxChars)

\* The indexes at which a line with a top-level heading starts: a line
\* that starts with one '#' and a space.
topHeadings(doc) ==
  {i \in 0..(Len(doc) - 1) :
     /\ i = 0 \/ MatchAt(doc, "\n", i - 1)
     /\ MatchAt(doc, "# ", i)}

\* The end of the structural header of a document: the first top-level
\* heading, a blank line, one paragraph (which may be empty) and a blank
\* line; 0 when the document has no top-level heading or the first one
\* lacks that structure.
structuralHeaderEnd(doc) ==
  IF topHeadings(doc) = {} THEN 0
  ELSE LET heading == MinOf(topHeadings(doc))
           lineEnd == indexOf(doc, "\n", heading)
           paragraphEnd == indexOf(doc, "\n\n", lineEnd + 2)
       IN  IF /\ lineEnd # -1
              /\ MatchAt(doc, "\n\n", lineEnd)
              /\ paragraphEnd # -1
           THEN paragraphEnd + 2
           ELSE 0

\* The number of occurrences of p in s.
occurrences(s, p) == Cardinality({i \in 0..(Len(s) - Len(p)) : MatchAt(s, p, i)})

\* C19: header injection inserts the preamble exactly once: directly after
\* the structural header (first top-level heading, blank line, first
\* paragraph, blank line) when the document has one, so that the rest of
\* the document follows the preamble, and at the very start of the document
\* otherwise; the preamble is in the output in every case.
C19_PreambleAfterHeader ==
  call.op = "insertAfterHeader" =>
    LET headerEnd == structuralHeaderEnd(call.prompt)
    IN  /\ occurrences(call.result, call.content) = 1
        /\ endsWith(call.result, call.content \o substringFrom(call.prompt, headerEnd))
        /\ headerEnd = 0 => call.result = call.content \o call.prompt

\* The glyphs of the section markers of the core fragment (goal,
\* implementation, considerations, validation) with their bracketed texts.
mappedGlyphs ==
  { <<"¤¥", "[OBJECTIVE]">>, <<"£¢", "[IMPLEMENTATION]">>,
    <<"⚠°", "[CONSIDERATIONS]">>, <<"£¦", "[VALIDATION]">> }

\* C20: symbol removal replaces every occurrence of each mapped glyph, as
\* it occurs in the fragments, by its bracketed text and strips the
\* remaining decorative glyphs afterwards: the output holds no glyph of the
\* decorative ranges and holds the bracketed text of a mapped glyph at
\* least as often as the input holds the glyph.
C20_MappedGlyphsBecomeText ==
  call.op = "removeEmojis" =>
    /\ \A g \in decorativeGlyphs : ~includes(call.result, g)
    /\ \A m \in mappedGlyphs :
         occurrences(call.result, m[2]) >= occurrences(call.prompt, m[1])


\* The instructional annotation of the structured-reasoning profile.
annotation == "*Claude users: Provide comprehensive analysis with multiple perspectives*"

\* The goal marker token: inline form (glyph, "OBJECTIVE:") and heading
\* form (level-3 heading of glyph and "OBJECTIVE"), with the glyph as the
\* core fragment holds it and as the patterns of the rewrite hold it.
objectiveMarkers ==
  { "¤¥ OBJECTIVE:", "### ¤¥ OBJECTIVE", "µÿ¯ OBJECTIVE:", "### µÿ¯ OBJECTIVE" }

\* C21: the emphasis rewrite puts the annotation directly after every
\* occurrence of the goal marker: for each form of the marker, the output
\* holds the marker followed by a line break and the annotation at least as
\* often as the input holds the marker, also when the input holds both
\* forms.
C21_EveryMarkerAnnotated ==
  call.op = "enhanceStructuredSections" =>
    \A m \in objectiveMarkers :
      occurrences(call.result, m \o "\n" \o annotation) >= occurrences(call.prompt, m)


\* The level of the heading a line holds: the number of "#" in front of the
\* blank, 0 for a line that is no heading.
headingLevel(line) ==
  LET levels == {n \in 1..6 : startsWith(line, rep("#", n) \o " ")}
  IN  IF levels = {} THEN 0 ELSE MaxOf(levels)

\* The number of bold phrases of a text, counted from the left.
RECURSIVE boldPhrases(_)
boldPhrases(s) ==
  LET hits == {i \in 0..(Len(s) - 5) : boldAt(s, i)}
  IN  IF hits = {} THEN 0
      ELSE 1 + boldPhrases(substringFrom(s, boldEnd(s, MinOf(hits)) + 2))

\* C22: structural simplification keeps the lines of the document and
\* demotes headings by exactly one level: a heading of level 3 to 6 becomes
\* a heading of the level below, headings of level 1 and 2 and lines that
\* are no heading keep their level; every bold phrase becomes the phrase
\* with a colon and every checkbox marker a plain bullet.
C22_HeadingsDemotedByOne ==
  call.op = "simplifyStructure" =>
    LET before == splitLines(call.prompt)
        after == splitLines(call.result)
    IN  /\ Len(after) = Len(before)
        /\ \A i \in 1..Len(before) :
             headingLevel(after[i]) =
               IF headingLevel(before[i]) >= 3 THEN headingLevel(before[i]) - 1
               ELSE headingLevel(before[i])
        /\ boldPhrases(call.result) = 0
        /\ occurrences(call.result, ":") =
             occurrences(call.prompt, ":") + boldPhrases(call.prompt)
        /\ ~includes(call.result, "- [ ]")
        /\ occurrences(call.result, "-") = occurrences(call.prompt, "-")


\* The rewrite steps a profile declares, by their number in the fixed order
\* (1 header injection, 2 section relabeling, 3 emphasis rewrite,
\* 4 appendix, 5 symbol removal, 6 structural simplification).
declaredSteps(platform) ==
  CASE platform = "cursor" -> <<1, 2>>
    [] platform = "claude" -> <<1, 3, 4>>
    [] platform = "ollama" -> <<1, 5, 6>>
    [] OTHER -> <<1>>

\* The preamble of a profile; the generic one for the universal profile and
\* for every destination without a profile.
preambleOf(platform) ==
  CASE platform = "cursor" -> cursorPrefix
    [] platform = "claude" -> claudePrefix
    [] platform = "ollama" -> ollamaPrefix
    [] OTHER -> universalPrefix

\* One rewrite step on a document.
applyStep(n, doc, platform) ==
  CASE n = 1 -> insertAfterHeader(doc, preambleOf(platform))
    [] n = 2 -> enhanceCodeSections(doc)
    [] n = 3 -> enhanceStructuredSections(doc)
    [] n = 4 -> addDetailedExamples(doc)
    [] n = 5 -> removeEmojis(doc)
    [] n = 6 -> simplifyStructure(doc)

\* The steps of a sequence applied to a document from the left.
RECURSIVE applySteps(_, _, _)
applySteps(steps, doc, platform) ==
  IF steps = <<>> THEN doc
  ELSE applySteps(Tail(steps), applyStep(Head(steps), doc, platform), platform)

\* The entry of appliedOptimizations a step appends.
stepLabel(n, platform) ==
  CASE n = 1 /\ platform = "cursor" -> "Added Cursor-specific code generation focus"
    [] n = 1 /\ platform = "claude" -> "Added Claude-specific structured thinking"
    [] n = 1 /\ platform = "ollama" -> "Added Ollama-specific local model optimization"
    [] n = 1 /\ platform \notin {"cursor", "claude", "ollama"} ->
         "Added universal compatibility optimization"
    [] n = 2 -> "Enhanced code-related sections"
    [] n = 3 -> "Enhanced structured sections"
    [] n = 4 -> "Added detailed examples"
    [] n = 5 -> "Removed emojis for local model compatibility"
    [] n = 6 -> "Simplified structure for local models"

\* The documents the truncation stage of a profile can make of a rewritten
\* document: the document itself, its character truncation, and for the
\* profile with a line limit the line truncation of either.
truncationOutcomes(doc, platform) ==
  LET limits == profileOf(platform)
      byChars == {doc, truncatePrompt(doc, limits.maxCharacters)}
  IN  IF platform = "ollama"
      THEN byChars \cup {truncateByLines(d, limits.maxLines) : d \in byChars}
      ELSE byChars

\* C23: an optimize run applies exactly the steps its profile declares, in
\* the fixed order, and truncates after them: the applied optimizations are
\* the entries of the declared steps in their order, and the final document
\* is the document the declared steps make of the input, or a truncation of
\* that document; a destination without a profile runs step 1 alone with
\* the generic preamble.
C23_DeclaredStepsInOrder ==
  call.op = "optimize" =>
    LET steps == declaredSteps(call.platform)
        rewritten == applySteps(steps, call.prompt, call.platform)
    IN  /\ call.result.appliedOptimizations =
             [i \in 1..Len(steps) |-> stepLabel(steps[i], call.platform)]
        /\ call.result.optimizedPrompt \in truncationOutcomes(rewritten, call.platform)

\* C23 witness: an optimize run of the profile with three steps on a
\* document for which the order of steps 5 and 6 matters, truncated after
\* the rewrites.
C23_Witness ==
  /\ call.op = "optimize"
  /\ call.platform = "ollama"
  /\ applySteps(<<1, 5, 6>>, call.prompt, "ollama")
       # applySteps(<<1, 6, 5>>, call.prompt, "ollama")
  /\ mentionsTruncated(call.result.warnings)
  /\ call.result.optimizedPrompt # applySteps(<<1, 5, 6>>, call.prompt, "ollama")


\* C24: for a destination with a registered profile the assembler takes its
\* thresholds from exactly the ceiling of that profile, a ceiling of 0
\* included: the applied steps are the ones the inclusion rule decides for
\* that ceiling, and with a ceiling of 0 they are the core step alone.
C24_RegisteredCeilingUsed ==
  (call.op = "generate" /\ call.platform \in DOMAIN platformLimits) =>
    LET C == platformLimits[call.platform].maxCharacters
    IN  /\ call.optimization.appliedOptimizations
             = decidedSteps(C, extendedOfCall, examplesOfCall)
        /\ C = 0 => call.optimization.appliedOptimizations = <<"core">>


\* TRUE iff the call of the state would return the same once more: its
\* result is the one the operation yields from the library and the profile
\* table as they are after the call.
repeatable ==
  CASE call.op = "generate" ->
         /\ call.optimization = assembleAdaptivePrompt(call.platform, call.packageJson)
         /\ call.result = generate(call.platform, call.packageJson)
    [] call.op = "getPlatformLimit" -> call.result = getPlatformLimit(call.platform)
    [] OTHER -> TRUE

\* C25: no generate, optimize, truncation or lookup call writes the core
\* fragment, the fragment pools or the profile table, and a request returns
\* the document and the applied steps that the same request returns in the
\* state the call leaves behind, whatever calls came before it.
C25_LibraryReadOnly ==
  [][ /\ corePrompt' = corePrompt
      /\ extendedPrompts' = extendedPrompts
      /\ examples' = examples
      /\ platformLimits' = platformLimits
      /\ repeatable' ]_vars

\* C25 witness: a generate call that read the core fragment, both pools and
\* the profile table and appended both optional fragments.
C25_Witness ==
  /\ call.op = "generate"
  /\ call.optimization.appliedOptimizations = <<"core", "extended", "examples">>
  /\ stored(extendedPrompts, call.platform) = ""
  /\ repeatable


\* A truncatePrompt call that takes the header-preserving return: the
\* document is longer than the ceiling, at least 0.3 x its length is
\* available, and more is available than the header region is long.
headerReturn ==
  /\ call.op = "truncatePrompt"
  /\ Len(call.prompt) > call.maxChars
  /\ 10 * availableChars(call.prompt, call.maxChars) >= 3 * Len(call.prompt)
  /\ availableChars(call.prompt, call.maxChars) > truncHeaderLength(call.prompt)

\* The index of the document where the kept middle slice of the result ends.
keptEnd == Len(call.result) - Len(truncationMessage) - footerLength(call.prompt)

\* C26: in the header-preserving return the header region, the kept middle
\* slice and the footer region are disjoint regions of the document in
\* this order: the header ends at or before the footer start, the middle
\* slice starts at the header end and ends strictly before the footer
\* start, and the output without the marker is the document with the
\* region between the middle slice and the footer taken out.  (The footer
\* region starts at length - footerLength, the end of the document when it
\* has no footer.)
C26_RegionsDisjointInOrder ==
  headerReturn =>
    LET footerStart == Len(call.prompt) - footerLength(call.prompt)
    IN  /\ truncHeaderLength(call.prompt) <= footerStart
        /\ truncHeaderLength(call.prompt) <= keptEnd
        /\ keptEnd < footerStart
        /\ call.result = substring(call.prompt, 0, keptEnd) \o truncationMessage
                           \o substringFrom(call.prompt, footerStart)

\* C26 witness: a header-preserving return with a header region, a kept
\* middle slice and a footer region, none of them empty.
C26_Witness ==
  /\ headerReturn
  /\ truncHeaderLength(call.prompt) > 0
  /\ keptEnd > truncHeaderLength(call.prompt)
  /\ footerLength(call.prompt) > 0
  /\ keptEnd < Len(call.prompt) - footerLength(call.prompt)


\* A truncatePrompt call that enters the header/footer branch with a
\* document that has neither a header region nor a footer, under a ceiling
\* of at least the marker length.
plainInHeaderBranch ==
  /\ call.op = "truncatePrompt"
  /\ Len(call.prompt) > call.maxChars
  /\ call.maxChars >= Len(truncationMessage)
  /\ footerIndex(call.prompt) = -1
  /\ truncHeaderLength(call.prompt) = 0
  /\ 10 * (call.maxChars - Len(truncationMessage)) >= 3 * Len(call.prompt)

\* C27: for a document without header region and footer the header/footer
\* branch returns what the simple truncation of the same document under
\* the same ceiling returns, so the 0.3 threshold does not show in the
\* result.
C27_BranchesAgreeOnPlainDocuments ==
  plainInHeaderBranch => call.result = simpleTruncate(call.prompt, call.maxChars)

\* C27 witness: such a call whose cut was moved back to a paragraph break.
C27_Witness ==
  /\ plainInHeaderBranch
  /\ call.result = simpleTruncate(call.prompt, call.maxChars)
  /\ call.result # substring(call.prompt, 0, call.maxChars - Len(truncationMessage))
                     \o truncationMessage


\* C28: truncatePrompt returns a document of at most maxChars characters
\* as it is, truncateByLines a document of at most maxLines lines; so a
\* second truncation under the same ceiling, for ceilings of at least the
\* marker length (line limits of at least the two marker lines), returns
\* its input and the marker occurs once.
C28_TruncationIdempotent ==
  /\ call.op = "truncatePrompt" =>
       /\ Len(call.prompt) <= call.maxChars => call.result = call.prompt
       /\ call.maxChars >= Len(truncationMessage) =>
            /\ truncatePrompt(call.result, call.maxChars) = call.result
            /\ occurrences(call.result, truncationMessage) <= 1
  /\ call.op = "truncateByLines" =>
       /\ Len(splitLines(call.prompt)) <= call.maxLines => call.result = call.prompt
       /\ call.maxLines >= 2 =>
            /\ truncateByLines(call.result, call.maxLines) = call.result
            /\ occurrences(call.result, "[Truncated for platform compatibility]") <= 1

\* C28 witness: a character truncation that cut the document, under a
\* ceiling of at least the marker length, whose result a second truncation
\* returns as it is.
C28_Witness ==
  /\ call.op = "truncatePrompt"
  /\ call.maxChars >= Len(truncationMessage)
  /\ call.result # call.prompt
  /\ occurrences(call.result, truncationMessage) = 1
  /\ truncatePrompt(call.result, call.maxChars) = call.result


\* C29: header injection only adds text: the output is the input with the
\* preamble inserted at one position, so it is as long as input and
\* preamble together and gives the input back when the preamble is taken
\* out, also when the header region holds '$' patterns.
C29_InjectionOnlyAdds ==
  call.op = "insertAfterHeader" =>
    /\ Len(call.result) = Len(call.prompt) + Len(call.content)
    /\ \E k \in 0..Len(call.prompt) :
         call.result = substring(call.prompt, 0, k) \o call.content
                         \o substringFrom(call.prompt, k)


\* C30: a parse call ends and invokes at most one action, that of the
\* command named first; it invokes none when the command is not registered,
\* when a help or version flag is among the arguments, or when an argument
\* is an option flag the command does not declare; and the options of an
\* invocation hold the default of every declared option that has one and
\* whose flags are not among the arguments.  (The flags an option declares
\* are the names in its flags text, "-p" and "--platform" for
\* "-p, --platform <platform>".)
C30_ActionInvokedAtMostOnce ==
  call.op = "parse" =>
    LET args == call.args
        actions == call.result.actions
        flagName(f) == IF indexOf(f, " ", 0) = -1 THEN f
                       ELSE substring(f, 0, indexOf(f, " ", 0))
        flagNames(opt) == {flagName(trim(splitComma(opt.flags)[i])) :
                             i \in DOMAIN splitComma(opt.flags)}
        declaredFlags(command) ==
          UNION {flagNames(commands[command][n]) : n \in DOMAIN commands[command]}
        helpAndVersionFlags == {"-h", "--help", "-v", "--version"}
        known == Len(args) > 0 /\ args[1] \in DOMAIN commands
        helpOrVersion == \E i \in DOMAIN args : args[i] \in helpAndVersionFlags
        undeclared == /\ known
                      /\ \E i \in 2..Len(args) :
                           /\ startsWith(args[i], "-")
                           /\ args[i] \notin declaredFlags(args[1]) \cup helpAndVersionFlags
    IN  /\ Len(actions) <= 1
        /\ (~known \/ helpOrVersion \/ undeclared) => actions = <<>>
        /\ actions # <<>> =>
             /\ actions[1].command = args[1]
             /\ \A n \in DOMAIN commands[args[1]] :
                  LET opt == commands[args[1]][n]
                      supplied == \E i \in 2..Len(args) : args[i] \in flagNames(opt)
                  IN  (opt.hasDefault /\ ~supplied) =>
                        /\ getOptionKey(opt.flags) \in DOMAIN actions[1].options
                        /\ actions[1].options[getOptionKey(opt.flags)] = opt.defaultValue

====
